---- MODULE Spec2Model ----
(***************************************************************************)
(* State-machine model of the EVM block store (ain-evm storage) and of the *)
(* EVM handler (queues, bridge balance updates, simulation calls).         *)
(*                                                                         *)
(* Hashes (keccak of a header, a transaction or a byte code) are modelled  *)
(* as collision-free digests: a tuple of the hashed fields.  An H256 that  *)
(* is zero is the empty tuple.  Option<T> is a set with at most one member.*)
(***************************************************************************)
EXTENDS Integers, Sequences, FiniteSets, TLC

\* ------------------------------------------------------------------ bounds
MaxNumber == 2          \* highest block number a block can carry
MaxTxs == 2             \* most transactions in one block
MaxNonce == 1           \* highest nonce a signed transaction carries
MaxAddr == 2            \* addresses are 1..MaxAddr
MaxCode == 2            \* byte codes are <<1>> .. <<MaxCode>>
MaxOps == 3             \* storage calls in one behaviour of SpecApi
MaxBalance == 1         \* highest on-chain balance of an account at the start
MaxAmount == 1          \* highest amount of a bridge balance update
MaxContexts == 2        \* queue contexts handed out in one behaviour
MaxHash == 2            \* native transaction hashes are 1..MaxHash
MaxQueue == 2           \* entries the queues hold in all
MaxCost == 1            \* highest up-front cost a signed transaction declares
MaxToken == 2           \* tokens are 1..MaxToken, each priced in one currency
MaxHeight == 2          \* highest block an oracle event is indexed at
MaxEvents == 4          \* oracle events indexed and not invalidated
MaxOracles == 2         \* oracles appointed and not invalidated
TrieDepth == 2          \* trie keys are bit strings of this length
MaxValue == 2           \* trie values are 1..MaxValue
MaxEdits == 2           \* inserts and removes between two commits of a TrieMut
MaxTopic == 2           \* log topics are 1..MaxTopic, a log has at most MaxTopic of them
MaxLogs == 2            \* logs of one receipt
MaxReceipts == 2        \* receipts of one block
BloomBitCount == 8      \* bits of a Bloom (2048 in ethereum_types)
ByteRange == 3          \* a byte is 0..ByteRange - 1 (256 in the code)
U256Bytes == 3          \* bytes of a U256 key field (32 in the code)
H256Bytes == 2          \* bytes of an H256 (32 in the code)
H160Bytes == 1          \* bytes of an H160 (20 in the code)
I32Bits == 8            \* bits of an i32 in the model (32 in the code)
MaxThreads == 2          \* threads of the host that call in
MaxCalls == 3           \* calls the threads begin in one behaviour
MaxTrieSteps == 8       \* trie calls in one behaviour of SpecTrie
MaxLifecycleSteps == 3  \* indexer calls in one behaviour of SpecLifecycle
MaxSteps == 5           \* indexer calls in one behaviour of SpecOracle

Addresses == 1..MaxAddr
Codes == {<<c>> : c \in 1..MaxCode}
Numbers == 1..MaxNumber

VARIABLES
    store,      \* BlockStore: the column families of the Rocks backend
    trie,       \* TrieDBStore: committed state root -> accounts
    tx_queues,  \* TransactionQueueMap: context id -> queued entries, in order
    next_context, \* the next context id get_context hands out
    last,       \* the last call and what it returned
    undo,       \* history: the store contents before each block still connected
    ops,        \* number of storage calls made (SpecApi)
    services,   \* Services: the by_id and by_key stores of the oracle indexer
    indexed,    \* history: the oracle events indexed and not invalidated, in order
    absorbed,   \* history: interval bucket id -> its states after each aggregate
    kvdb,       \* TrieBackend.db: column 0, prefixed node key -> node
    trie_mut,   \* the TrieMut open on the backend, if any
    commits,    \* history: the commits made in order, each with its base root and edits
    block_bloom,    \* the Bloom a block accumulates over the logs of its receipts
    receipt_blooms, \* history: the logs of each receipt of the block and their Bloom
    threads,        \* the host's threads: the call each is in and its local values
    admitted        \* history: context id -> the calls answered with Ok, in return order

vars == <<store, trie, tx_queues, next_context, last, undo, ops, services, indexed, absorbed,
          kvdb, trie_mut, commits, block_bloom, receipt_blooms,
          threads, admitted>>
evmVars == <<trie, tx_queues, next_context>>
trieVars == <<kvdb, trie_mut, commits>>
bloomVars == <<block_bloom, receipt_blooms>>
concVars == <<threads, admitted>>
chainVars == <<store, trie, tx_queues, next_context, undo, trieVars, bloomVars, concVars>>
oracleVars == <<services, indexed, absorbed>>

\* ------------------------------------------------------------- option type
None == {}
Some(v) == {v}
IsSome(o) == o # {}
Unwrap(o) == CHOOSE v \in o : TRUE

\* ------------------------------------------------------------------ hashes
ZeroHash == <<>>

\* TransactionV2::hash: keccak of the encoded transaction
TxHash(tx) == <<tx.sender, tx.nonce>>

\* transactions_root of a block built from its transactions
TxRoot(txs) == [i \in 1..Len(txs) |-> TxHash(txs[i])]

\* Header::hash: keccak of the encoded header
HeaderHash(header) ==
    <<header.number, header.parent_hash, header.state_root, header.transactions_root>>

\* keccak of a byte code
CodeHash(code) == <<"code", code>>

\* BlockAny built from a header and its transactions
NewBlock(number, parent_hash, state_root, txs) ==
    [header |-> [number |-> number, parent_hash |-> parent_hash,
                 state_root |-> state_root, transactions_root |-> TxRoot(txs)],
     transactions |-> txs]

\* ------------------------------------------------------------ column keys
\* raw keys are sequences of bytes; an H160 and an H256 are their bytes, a
\* U256 is a number below ByteRange ^ U256Bytes
ByteStrings(n) == [1..n -> 0..(ByteRange - 1)]
U256s == 0..(ByteRange ^ U256Bytes - 1)
H256s == ByteStrings(H256Bytes)
H160s == ByteStrings(H160Bytes)

\* faulty variant: the least significant byte first
RECURSIVE to_little_endian(_, _)
to_little_endian(n, width) ==
    IF width = 0 THEN <<>>
    ELSE <<n % ByteRange>> \o to_little_endian(n \div ByteRange, width - 1)

\* U256::to_big_endian into a buffer of width bytes
RECURSIVE to_big_endian(_, _)
to_big_endian(n, width) ==
    IF width = 0 THEN <<>>
    ELSE Append(to_big_endian(n \div ByteRange, width - 1), n % ByteRange)

\* U256::from(&[u8]) and U256::from_big_endian
RECURSIVE from_big_endian(_)
from_big_endian(bytes) ==
    IF bytes = <<>> THEN 0
    ELSE from_big_endian(SubSeq(bytes, 1, Len(bytes) - 1)) * ByteRange + bytes[Len(bytes)]

\* H256::from_slice, H160::from_slice: the bytes; the slice has the type's length
from_slice(bytes) == bytes

\* Column::key and Column::get_key of each column
Transactions_key(index) == index
Transactions_get_key(raw_key) == from_slice(raw_key)
Blocks_key(index) == to_big_endian(index, U256Bytes)
Blocks_get_key(raw_key) == from_big_endian(raw_key)
Receipts_key(index) == index
Receipts_get_key(raw_key) == from_slice(raw_key)
BlockMap_key(index) == index
BlockMap_get_key(raw_key) == from_slice(raw_key)
AddressLogsMap_key(index) == to_big_endian(index, U256Bytes)
AddressLogsMap_get_key(raw_key) == from_big_endian(raw_key)
AddressCodeMap_key(index) == index[1] \o index[2]
AddressCodeMap_get_key(raw_key) ==
    <<from_slice(SubSeq(raw_key, 1, H160Bytes)),
      from_slice(SubSeq(raw_key, H160Bytes + 1, Len(raw_key)))>>
BlockDeployedCodeHashes_key(index) == to_big_endian(index[1], U256Bytes) \o index[2]
BlockDeployedCodeHashes_get_key(raw_key) ==
    <<from_big_endian(SubSeq(raw_key, 1, U256Bytes)),
      from_slice(SubSeq(raw_key, U256Bytes + 1, U256Bytes + H160Bytes))>>

\* the order of raw keys in the database: byte by byte
BytesLess(a, b) ==
    \/ \E i \in 1..Len(a) :
          /\ i <= Len(b)
          /\ a[i] < b[i]
          /\ \A j \in 1..(i - 1) : a[j] = b[j]
    \/ /\ Len(a) < Len(b)
       /\ \A j \in 1..Len(a) : a[j] = b[j]

\* ---------------------------------------------------------- typed columns
\* LedgerColumn::get / put / delete over one column family
ColGet(col, k) == IF k \in DOMAIN col THEN Some(col[k]) ELSE None
ColPut(col, k, v) == [x \in (DOMAIN col) \cup {k} |-> IF x = k THEN v ELSE col[x]]
ColDelete(col, k) == [x \in (DOMAIN col) \ {k} |-> col[x]]

\* faulty variant: the raw key is the index string
LatestKeyOfIndex(index) == index

\* Column::key of LatestBlockNumber: every index maps to the same raw key
LatestKey(index) == "latest"

EmptyCol == <<>>

EmptyStore ==
    [blocks |-> EmptyCol, transactions |-> EmptyCol, receipts |-> EmptyCol,
     block_map |-> EmptyCol, latest_block_number |-> EmptyCol,
     address_logs_map |-> EmptyCol, code_map |-> EmptyCol,
     block_code_hashes |-> EmptyCol]

\* the host's threads; a thread that is in no call
Threads == 1..MaxThreads
Idle == [pc |-> "idle"]

\* Services at start: every repository of the oracle indexer is empty
\* no TrieMut is open
NoTrieMut == [open |-> FALSE]

EmptyRepository == [by_id |-> EmptyCol, by_key |-> EmptyCol]

EmptyServices ==
    [oracle |-> EmptyRepository,
     oracle_history |-> EmptyRepository,
     oracle_token_currency |-> EmptyRepository,
     oracle_price_feed |-> EmptyRepository,
     oracle_price_aggregated |-> EmptyRepository,
     price_ticker |-> EmptyRepository,
     oracle_price_aggregated_interval |-> EmptyRepository]

\* ------------------------------------------------------ TransactionStorage
\* faulty variant: every transaction goes under the hash of the block's first one
RECURSIVE extend_transactions_first_key(_, _, _)
extend_transactions_first_key(col, txs, n) ==
    IF n = 0 THEN col
    ELSE ColPut(extend_transactions_first_key(col, txs, n - 1), TxHash(txs[1]), txs[n])

\* the first n iterations of the loop of extend_transactions_from_block
RECURSIVE extend_transactions_upto(_, _, _)
extend_transactions_upto(col, txs, n) ==
    IF n = 0 THEN col
    ELSE ColPut(extend_transactions_upto(col, txs, n - 1), TxHash(txs[n]), txs[n])

extend_transactions_from_block(s, block) ==
    [s EXCEPT !.transactions =
        extend_transactions_upto(@, block.transactions, Len(block.transactions))]

get_transaction_by_hash(s, hash) == ColGet(s.transactions, hash)

put_transaction(s, transaction) ==
    [s EXCEPT !.transactions = ColPut(@, TxHash(transaction), transaction)]

\* index is 0-based, as in Vec::get
get_transaction_by_block_hash_and_index(s, block_hash, index) ==
    LET block_number == ColGet(s.block_map, block_hash) IN
    IF IsSome(block_number)
    THEN LET block == ColGet(s.blocks, Unwrap(block_number)) IN
         IF IsSome(block)
         THEN IF index < Len(Unwrap(block).transactions)
              THEN Some(Unwrap(block).transactions[index + 1])
              ELSE None
         ELSE None
    ELSE None

\* ------------------------------------------------------------ BlockStorage
get_block_by_number(s, number) == ColGet(s.blocks, number)

get_block_by_hash(s, block_hash) ==
    LET block_number == ColGet(s.block_map, block_hash) IN
    IF IsSome(block_number) THEN get_block_by_number(s, Unwrap(block_number)) ELSE None

\* put_block with the write that fails: 0 none, k in 1..n the k-th transaction
\* write, n+1 the blocks write, n+2 the block_map write (n transactions).
\* A failing write changes nothing and returns the error at once.
put_block(s, block, failAt) ==
    LET n == Len(block.transactions)
        written == IF failAt = 0 \/ failAt > n THEN n ELSE failAt - 1
        s1 == [s EXCEPT !.transactions =
                  extend_transactions_upto(@, block.transactions, written)]
        s2 == IF failAt \in 1..(n + 1) THEN s1
              ELSE [s1 EXCEPT !.blocks = ColPut(@, block.header.number, block)]
        s3 == IF failAt # 0 THEN s2
              ELSE [s2 EXCEPT !.block_map =
                        ColPut(@, HeaderHash(block.header), block.header.number)]
    IN [store |-> s3, ok |-> failAt = 0]

get_latest_block(s) ==
    LET block_number == ColGet(s.latest_block_number, LatestKey("")) IN
    IF IsSome(block_number) THEN get_block_by_number(s, Unwrap(block_number)) ELSE None

\* block is an Option<&BlockAny>
put_latest_block(s, block) ==
    IF IsSome(block)
    THEN [s EXCEPT !.latest_block_number =
              ColPut(@, LatestKey("latest_block"), Unwrap(block).header.number)]
    ELSE s

\* ---------------------------------------------------------- ReceiptStorage
get_receipt(s, tx) == ColGet(s.receipts, tx)

RECURSIVE put_receipts_upto(_, _, _)
put_receipts_upto(col, receipts, n) ==
    IF n = 0 THEN col
    ELSE ColPut(put_receipts_upto(col, receipts, n - 1), receipts[n].tx_hash, receipts[n])

put_receipts(s, receipts) ==
    [s EXCEPT !.receipts = put_receipts_upto(@, receipts, Len(receipts))]

\* -------------------------------------------------------------- LogStorage
get_logs(s, block_number) == ColGet(s.address_logs_map, block_number)

\* faulty variant: the map of the block is always started afresh
put_logs_fresh_map(s, address, logs, block_number) ==
    [s EXCEPT !.address_logs_map =
        ColPut(@, block_number, ColPut(EmptyCol, address, logs))]

put_logs(s, address, logs, block_number) ==
    LET cur == get_logs(s, block_number) IN
    IF IsSome(cur)
    THEN [s EXCEPT !.address_logs_map =
              ColPut(@, block_number, ColPut(Unwrap(cur), address, logs))]
    ELSE [s EXCEPT !.address_logs_map =
              ColPut(@, block_number, ColPut(EmptyCol, address, logs))]

\* -------------------------------------------------------------- code store
get_code_by_hash(s, hash) == ColGet(s.code_map, hash)

\* faulty variant: the hashes of the block are replaced by the new hash
put_code_single_hash(s, block_number, hash, code) ==
    [s EXCEPT !.block_code_hashes = ColPut(@, block_number, {hash}),
              !.code_map = ColPut(@, hash, code)]

put_code(s, block_number, hash, code) ==
    LET cur == ColGet(s.block_code_hashes, block_number)
        block_codes == (IF IsSome(cur) THEN Unwrap(cur) ELSE {}) \cup {hash}
    IN [s EXCEPT !.block_code_hashes = ColPut(@, block_number, block_codes),
                 !.code_map = ColPut(@, hash, code)]

\* ---------------------------------------------------------------- Rollback
\* the loop over block.transactions of disconnect_latest_block
RECURSIVE delete_txs_and_receipts(_, _, _)
delete_txs_and_receipts(s, txs, n) ==
    IF n = 0 THEN s
    ELSE LET p == delete_txs_and_receipts(s, txs, n - 1) IN
         [p EXCEPT !.transactions = ColDelete(@, TxHash(txs[n])),
                   !.receipts = ColDelete(@, TxHash(txs[n]))]

disconnect_latest_block(s) ==
    LET latest == get_latest_block(s) IN
    IF IsSome(latest)
    THEN LET block == Unwrap(latest)
             s1 == delete_txs_and_receipts(s, block.transactions, Len(block.transactions))
             s2 == [s1 EXCEPT !.blocks = ColDelete(@, block.header.number),
                              !.address_logs_map = ColDelete(@, block.header.number)]
             s3 == [s2 EXCEPT !.block_map = ColDelete(@, HeaderHash(block.header))]
             parent == get_block_by_hash(s3, block.header.parent_hash)
             s4 == IF IsSome(parent)
                   THEN [s3 EXCEPT !.latest_block_number =
                            ColPut(@, LatestKey("latest_block"), Unwrap(parent).header.number)]
                   ELSE s3
             block_code_hashes == ColGet(s4.block_code_hashes, block.header.number)
             s5 == IF IsSome(block_code_hashes)
                   THEN [s4 EXCEPT !.code_map =
                            [h \in (DOMAIN @) \ Unwrap(block_code_hashes) |-> @[h]]]
                   ELSE s4
         IN [s5 EXCEPT !.block_code_hashes = ColDelete(@, block.header.number)]
    ELSE s

\* ------------------------------------------------------------- world state
\* Account: balance, nonce and the hash of its code (ZeroHash: no code)
EmptyAccount == [balance |-> 0, nonce |-> 0, code_hash |-> ZeroHash, storage |-> 0]

\* the state root is a pure function of the accounts it commits to
StateRoot(accounts) == <<"root", accounts>>

GenesisAccounts == EmptyCol

\* ------------------------------------------------- block connect (finalize)
\* the transactions a valid block can carry: the sender's next k nonces, none
\* of them in a block of the chain already
NextNonce(s) ==
    LET used == {n \in 0..MaxNonce : <<1, n>> \in DOMAIN s.transactions} IN
    IF used = {} THEN 0 ELSE (CHOOSE n \in used : \A m \in used : m <= n) + 1

NextTxs(s, k) == [i \in 1..k |-> [sender |-> 1, nonce |-> NextNonce(s) + i - 1]]

ReceiptsOf(block) ==
    [i \in 1..Len(block.transactions) |->
        [tx_hash |-> TxHash(block.transactions[i]),
         block_number |-> block.header.number, tx_index |-> i - 1]]

\* put_block, put_receipts, put_logs, put_code, put_latest_block for one block
persist_block(s, block, logAddr, code) ==
    LET s1 == put_block(s, block, 0).store
        s2 == put_receipts(s1, ReceiptsOf(block))
        s3 == IF logAddr = 0 THEN s2
              ELSE put_logs(s2, logAddr, <<0>>, block.header.number)
        s4 == IF code = 0 THEN s3
              ELSE put_code(s3, block.header.number, CodeHash(<<code>>), <<code>>)
    IN put_latest_block(s4, Some(block))

Init ==
    /\ store = EmptyStore
    /\ trie = (StateRoot(GenesisAccounts) :> GenesisAccounts)
    /\ tx_queues = <<>>
    /\ next_context = 1
    /\ last = [op |-> "init", ok |-> TRUE]
    /\ undo = <<>>
    /\ ops = 0
    /\ services = EmptyServices
    /\ indexed = <<>>
    /\ absorbed = <<>>
    /\ kvdb = <<>>
    /\ trie_mut = NoTrieMut
    /\ commits = <<>>
    /\ block_bloom = {}
    /\ receipt_blooms = <<>>
    /\ threads = [t \in Threads |-> Idle]
    /\ admitted = <<>>

ConnectBlock ==
    \E k \in 0..MaxTxs, logAddr \in 0..MaxAddr, code \in 0..MaxCode, root \in DOMAIN trie :
        LET latest == get_latest_block(store)
            number == IF IsSome(latest) THEN Unwrap(latest).header.number + 1 ELSE 1
            parent == IF IsSome(latest) THEN HeaderHash(Unwrap(latest).header) ELSE ZeroHash
            block == NewBlock(number, parent, root, NextTxs(store, k))
        IN /\ number <= MaxNumber
           /\ NextNonce(store) + k - 1 <= MaxNonce
           /\ store' = persist_block(store, block, logAddr, code)
           /\ last' = [op |-> "connect_block", ok |-> TRUE, block |-> Some(block)]
           /\ undo' = <<store>> \o undo
           /\ UNCHANGED <<evmVars, ops, oracleVars, trieVars, bloomVars, concVars>>

DisconnectLatestBlock ==
    /\ store' = disconnect_latest_block(store)
    /\ last' = [op |-> "disconnect_latest_block", ok |-> TRUE,
                block |-> get_latest_block(store),
                expect |-> IF undo = <<>> THEN None ELSE Some(Head(undo))]
    /\ undo' = IF undo = <<>> THEN undo ELSE Tail(undo)
    /\ UNCHANGED <<evmVars, ops, oracleVars, trieVars, bloomVars, concVars>>

Next == ConnectBlock \/ DisconnectLatestBlock

Spec == Init /\ [][Next]_vars

\* ------------------------------------------- the storage calls, one by one
\* transaction lists of a block: increasing nonces of sender 1
ApiTxLists ==
    {txs \in UNION {[1..n -> [sender : {1}, nonce : 0..MaxNonce]] : n \in 0..MaxTxs} :
        \A i \in 1..(Len(txs) - 1) : txs[i].nonce < txs[i + 1].nonce}

\* parents a new block names: none, or a block stored under the number before
ApiParents(s, number) ==
    {ZeroHash} \cup
    {HeaderHash(s.blocks[m].header) : m \in {x \in DOMAIN s.blocks : x = number - 1}}

PutBlock ==
    /\ ops < MaxOps
    /\ \E number \in Numbers, txs \in ApiTxLists, root \in DOMAIN trie :
       \E parent \in ApiParents(store, number), failAt \in 0..(Len(txs) + 2) :
          LET block == NewBlock(number, parent, root, txs)
              r == put_block(store, block, failAt)
          IN /\ store' = r.store
             /\ last' = [op |-> "put_block", ok |-> r.ok, block |-> Some(block)]
    /\ undo' = <<>>
    /\ ops' = ops + 1
    /\ UNCHANGED <<evmVars, oracleVars, trieVars, bloomVars, concVars>>

PutReceipts ==
    /\ ops < MaxOps
    /\ \E number \in Numbers, txs \in ApiTxLists, root \in DOMAIN trie :
          LET block == NewBlock(number, ZeroHash, root, txs) IN
          /\ txs # <<>>
          /\ store' = put_receipts(store, ReceiptsOf(block))
          /\ last' = [op |-> "put_receipts", ok |-> TRUE, block |-> Some(block)]
    /\ undo' = <<>>
    /\ ops' = ops + 1
    /\ UNCHANGED <<evmVars, oracleVars, trieVars, bloomVars, concVars>>

PutLogs ==
    /\ ops < MaxOps
    /\ \E address \in Addresses, number \in Numbers, logs \in {<<0>>, <<0, 1>>} :
          /\ store' = put_logs(store, address, logs, number)
          /\ last' = [op |-> "put_logs", ok |-> TRUE, address |-> address,
                      logs |-> logs, number |-> number,
                      before |-> get_logs(store, number)]
    /\ undo' = <<>>
    /\ ops' = ops + 1
    /\ UNCHANGED <<evmVars, oracleVars, trieVars, bloomVars, concVars>>

PutCode ==
    /\ ops < MaxOps
    /\ \E number \in Numbers, code \in Codes :
          /\ store' = put_code(store, number, CodeHash(code), code)
          /\ last' = [op |-> "put_code", ok |-> TRUE, number |-> number, code |-> code,
                      before |-> ColGet(store.block_code_hashes, number)]
    /\ undo' = <<>>
    /\ ops' = ops + 1
    /\ UNCHANGED <<evmVars, oracleVars, trieVars, bloomVars, concVars>>

\* a transaction of any sender, whether a stored block holds it or not
PutTransaction ==
    /\ ops < MaxOps
    /\ \E transaction \in [sender : Addresses, nonce : 0..MaxNonce] :
          /\ store' = put_transaction(store, transaction)
          /\ last' = [op |-> "put_transaction", ok |-> TRUE, transaction |-> transaction,
                      before |-> get_transaction_by_hash(store, TxHash(transaction))]
    /\ undo' = <<>>
    /\ ops' = ops + 1
    /\ UNCHANGED <<evmVars, oracleVars, trieVars, bloomVars, concVars>>

PutLatestBlock ==
    /\ ops < MaxOps
    /\ \E block \in {None} \cup {Some(store.blocks[m]) : m \in DOMAIN store.blocks} :
          /\ store' = put_latest_block(store, block)
          /\ last' = [op |-> "put_latest_block", ok |-> TRUE, block |-> block]
    /\ undo' = <<>>
    /\ ops' = ops + 1
    /\ UNCHANGED <<evmVars, oracleVars, trieVars, bloomVars, concVars>>

Disconnect ==
    /\ ops < MaxOps
    /\ store' = disconnect_latest_block(store)
    /\ last' = [op |-> "disconnect_latest_block", ok |-> TRUE,
                block |-> get_latest_block(store), expect |-> None]
    /\ undo' = <<>>
    /\ ops' = ops + 1
    /\ UNCHANGED <<evmVars, oracleVars, trieVars, bloomVars, concVars>>

NextApi ==
    \/ PutBlock
    \/ PutTransaction
    \/ PutReceipts
    \/ PutLogs
    \/ PutCode
    \/ PutLatestBlock
    \/ Disconnect

SpecApi == Init /\ [][NextApi]_vars

\* the calls that write and delete blocks: put_block, the latest-block
\* sentinel disconnect_latest_block reads, and disconnect_latest_block
NextBlocks == PutBlock \/ PutLatestBlock \/ Disconnect

SpecBlocks == Init /\ [][NextBlocks]_vars

\* ------------------------------------------------------- column key calls
\* Column::key of two indices of a column and Column::get_key of the first
\* key; a behaviour makes one such call
KeyCall(column, index, raw_key, get_key, other, other_key) ==
    [op |-> "Column.key", column |-> column, index |-> index, raw_key |-> raw_key,
     get_key |-> get_key, other |-> other, other_key |-> other_key]

TransactionsKey ==
    \E index \in H256s, other \in H256s :
        /\ last.op = "init"
        /\ last' = KeyCall("Transactions", index, Transactions_key(index),
                           Transactions_get_key(Transactions_key(index)), other, Transactions_key(other))
        /\ UNCHANGED <<chainVars, ops, oracleVars>>

BlocksKey ==
    \E index \in U256s, other \in U256s :
        /\ last.op = "init"
        /\ last' = KeyCall("Blocks", index, Blocks_key(index),
                           Blocks_get_key(Blocks_key(index)), other, Blocks_key(other))
        /\ UNCHANGED <<chainVars, ops, oracleVars>>

ReceiptsKey ==
    \E index \in H256s, other \in H256s :
        /\ last.op = "init"
        /\ last' = KeyCall("Receipts", index, Receipts_key(index),
                           Receipts_get_key(Receipts_key(index)), other, Receipts_key(other))
        /\ UNCHANGED <<chainVars, ops, oracleVars>>

BlockMapKey ==
    \E index \in H256s, other \in H256s :
        /\ last.op = "init"
        /\ last' = KeyCall("BlockMap", index, BlockMap_key(index),
                           BlockMap_get_key(BlockMap_key(index)), other, BlockMap_key(other))
        /\ UNCHANGED <<chainVars, ops, oracleVars>>

AddressLogsMapKey ==
    \E index \in U256s, other \in U256s :
        /\ last.op = "init"
        /\ last' = KeyCall("AddressLogsMap", index, AddressLogsMap_key(index),
                           AddressLogsMap_get_key(AddressLogsMap_key(index)), other, AddressLogsMap_key(other))
        /\ UNCHANGED <<chainVars, ops, oracleVars>>

AddressCodeMapKey ==
    \E index \in H160s \X H256s, other \in H160s \X H256s :
        /\ last.op = "init"
        /\ last' = KeyCall("AddressCodeMap", index, AddressCodeMap_key(index),
                           AddressCodeMap_get_key(AddressCodeMap_key(index)), other, AddressCodeMap_key(other))
        /\ UNCHANGED <<chainVars, ops, oracleVars>>

BlockDeployedCodeHashesKey ==
    \E index \in U256s \X H160s, other \in U256s \X H160s :
        /\ last.op = "init"
        /\ last' = KeyCall("BlockDeployedCodeHashes", index, BlockDeployedCodeHashes_key(index),
                           BlockDeployedCodeHashes_get_key(BlockDeployedCodeHashes_key(index)), other, BlockDeployedCodeHashes_key(other))
        /\ UNCHANGED <<chainVars, ops, oracleVars>>

NextKeys ==
    \/ TransactionsKey
    \/ BlocksKey
    \/ ReceiptsKey
    \/ BlockMapKey
    \/ AddressLogsMapKey
    \/ AddressCodeMapKey
    \/ BlockDeployedCodeHashesKey

SpecKeys == Init /\ [][NextKeys]_vars

\* ================================================================ EVMHandler
\* EVMBackend::from_root: the accounts committed under a state root
backend_from_root(tr, state_root) == ColGet(tr, state_root)

\* EVMBackend::get_account
backend_get_account(accounts, address) == ColGet(accounts, address)

\* EVMHandler::get_account: [ok, account]; ok is FALSE for a backend error
get_account(s, tr, address, block_number) ==
    LET byNumber == get_block_by_number(s, block_number)
        block == IF IsSome(byNumber) THEN byNumber ELSE get_latest_block(s)
        state_root == IF IsSome(block) THEN Unwrap(block).header.state_root ELSE ZeroHash
        backend == backend_from_root(tr, state_root)
    IN IF IsSome(backend)
       THEN [ok |-> TRUE, account |-> backend_get_account(Unwrap(backend), address)]
       ELSE [ok |-> FALSE, account |-> None]

get_balance(s, tr, address, block_number) ==
    LET r == get_account(s, tr, address, block_number) IN
    [ok |-> r.ok,
     value |-> IF r.ok /\ IsSome(r.account) THEN Unwrap(r.account).balance ELSE 0]

get_nonce(s, tr, address, block_number) ==
    LET r == get_account(s, tr, address, block_number) IN
    [ok |-> r.ok,
     value |-> IF r.ok /\ IsSome(r.account) THEN Unwrap(r.account).nonce ELSE 0]

get_code(s, tr, address, block_number) ==
    LET r == get_account(s, tr, address, block_number) IN
    [ok |-> r.ok,
     value |-> IF r.ok /\ IsSome(r.account)
               THEN get_code_by_hash(s, Unwrap(r.account).code_hash) ELSE None]

\* the storage trie of an account holds one slot, position 0
get_storage_at(s, tr, address, position, block_number) ==
    LET r == get_account(s, tr, address, block_number) IN
    [ok |-> r.ok,
     value |-> IF r.ok /\ IsSome(r.account) /\ position = 0
                  /\ Unwrap(r.account).storage # 0
               THEN Some(Unwrap(r.account).storage) ELSE None]

LatestNumber(s) ==
    LET latest == get_latest_block(s) IN
    IF IsSome(latest) THEN Unwrap(latest).header.number ELSE 0

\* --------------------------------------------------- TransactionQueueMap
NoError == [kind |-> "none", address |-> 0, account_balance |-> 0, amount |-> 0]
QueueError == [kind |-> "QueueError", address |-> 0, account_balance |-> 0, amount |-> 0]
BackendError == [kind |-> "BackendError", address |-> 0, account_balance |-> 0, amount |-> 0]
DecodeError == [kind |-> "DecodeError", address |-> 0, account_balance |-> 0, amount |-> 0]
InvalidNonce == [kind |-> "InvalidNonce", address |-> 0, account_balance |-> 0, amount |-> 0]

\* a queue entry: a signed transaction with its declared up-front cost
\* (gas_limit * gas_price + value) as amount, a bridge-in or a bridge-out
SignedTxEntry(tx) == [kind |-> "SignedTx", address |-> tx.sender, amount |-> tx.cost,
                      nonce |-> tx.nonce]
EvmIn(address, amount) == [kind |-> "EvmIn", address |-> address, amount |-> amount, nonce |-> 0]
EvmOut(address, amount) == [kind |-> "EvmOut", address |-> address, amount |-> amount, nonce |-> 0]

\* transactions of a sender pending in a queue
PendingCount(queue, sender) ==
    Cardinality({i \in 1..Len(queue) :
                    queue[i].tx.kind = "SignedTx" /\ queue[i].tx.address = sender})

\* what the bridge entries among the first n entries of a queue add to the
\* balance of address a
RECURSIVE BridgeSum(_, _, _)
BridgeSum(queue, a, n) ==
    IF n = 0 THEN 0
    ELSE BridgeSum(queue, a, n - 1)
         + (IF queue[n].tx.address # a THEN 0
            ELSE IF queue[n].tx.kind = "EvmIn" THEN queue[n].tx.amount
            ELSE IF queue[n].tx.kind = "EvmOut" THEN 0 - queue[n].tx.amount
            ELSE 0)

\* the chain state at the latest block, which the queue map reads through the
\* store and trie handles every component shares
current_nonce(sender) == get_nonce(store, trie, sender, LatestNumber(store)).value
on_chain_balance(address) == get_balance(store, trie, address, LatestNumber(store)).value

\* on-chain balance + queued bridge-ins - queued bridge-outs of the address
projected_balance(queue, address) ==
    on_chain_balance(address) + BridgeSum(queue, address, Len(queue))

\* the admission rules of a queue for an entry
admissible(queue, tx, hash) ==
    /\ \A i \in 1..Len(queue) : queue[i].hash # hash
    /\ tx.kind = "SignedTx" =>
          /\ tx.nonce = current_nonce(tx.address) + PendingCount(queue, tx.address)
          /\ tx.amount <= projected_balance(queue, tx.address)
    /\ tx.kind = "EvmOut" => tx.amount <= projected_balance(queue, tx.address)

\* TransactionQueueMap::queue_tx: the context must exist and its queue admit
\* the entry, which is then the last of the queue; one step under the
\* queue's mutex
tx_queues_queue_tx(queues, context, tx, hash) ==
    IF context \notin DOMAIN queues
    THEN [ok |-> FALSE, queues |-> queues]
    ELSE IF ~admissible(queues[context], tx, hash)
    THEN [ok |-> FALSE, queues |-> queues]
    ELSE [ok |-> TRUE,
          queues |-> [queues EXCEPT ![context] = Append(@, [tx |-> tx, hash |-> hash])]]

\* TransactionQueueMap::get_context
tx_queues_get_context(queues, id) == ColPut(queues, id, <<>>)

\* TransactionQueueMap::clear
tx_queues_clear(queues, context) ==
    IF context \in DOMAIN queues
    THEN [ok |-> TRUE, queues |-> ColDelete(queues, context)]
    ELSE [ok |-> FALSE, queues |-> queues]

\* ------------------------------------------------------ handler operations
\* a raw transaction either decodes to a signed transaction or does not
validate_raw_tx(s, tr, raw) ==
    IF ~raw.decodable
    THEN [ok |-> FALSE, err |-> DecodeError]
    ELSE LET block_number == LatestNumber(s)
             nonce == get_nonce(s, tr, raw.tx.sender, block_number)
         IN IF ~nonce.ok THEN [ok |-> FALSE, err |-> BackendError]
            ELSE IF nonce.value # raw.tx.nonce THEN [ok |-> FALSE, err |-> InvalidNonce]
            ELSE [ok |-> TRUE, err |-> NoError]

\* faulty variant: the error of the queue is dropped
queue_tx_unchecked(queues, context, tx, hash) ==
    LET r == tx_queues_queue_tx(queues, context, tx, hash) IN
    [ok |-> TRUE, err |-> NoError, queues |-> r.queues]

queue_tx(queues, context, tx, hash) ==
    LET r == tx_queues_queue_tx(queues, context, tx, hash) IN
    [ok |-> r.ok, err |-> IF r.ok THEN NoError ELSE QueueError, queues |-> r.queues]

add_balance(queues, context, address, amount, hash) ==
    LET r == tx_queues_queue_tx(queues, context, EvmIn(address, amount), hash) IN
    [ok |-> r.ok, err |-> IF r.ok THEN NoError ELSE QueueError, queues |-> r.queues]

\* faulty variant: the error reports the requested amount as the account balance
sub_balance_swapped(s, tr, queues, context, address, amount, hash) ==
    LET balance == get_balance(s, tr, address, LatestNumber(s)) IN
    IF ~balance.ok
    THEN [ok |-> FALSE, err |-> BackendError, queues |-> queues]
    ELSE IF balance.value < amount
    THEN [ok |-> FALSE,
          err |-> [kind |-> "InsufficientBalance", address |-> address,
                   account_balance |-> amount, amount |-> balance.value],
          queues |-> queues]
    ELSE queue_tx(queues, context, EvmOut(address, amount), hash)

\* faulty variant: the balance update is queued as a bridge-in
sub_balance_as_evm_in(s, tr, queues, context, address, amount, hash) ==
    LET balance == get_balance(s, tr, address, LatestNumber(s)) IN
    IF ~balance.ok
    THEN [ok |-> FALSE, err |-> BackendError, queues |-> queues]
    ELSE IF balance.value < amount
    THEN [ok |-> FALSE,
          err |-> [kind |-> "InsufficientBalance", address |-> address,
                   account_balance |-> balance.value, amount |-> amount],
          queues |-> queues]
    ELSE add_balance(queues, context, address, amount, hash)

sub_balance(s, tr, queues, context, address, amount, hash) ==
    LET balance == get_balance(s, tr, address, LatestNumber(s)) IN
    IF ~balance.ok
    THEN [ok |-> FALSE, err |-> BackendError, queues |-> queues]
    ELSE IF balance.value < amount
    THEN [ok |-> FALSE,
          err |-> [kind |-> "InsufficientBalance", address |-> address,
                   account_balance |-> balance.value, amount |-> amount],
          queues |-> queues]
    ELSE LET r == tx_queues_queue_tx(queues, context, EvmOut(address, amount), hash) IN
         [ok |-> r.ok, err |-> IF r.ok THEN NoError ELSE QueueError, queues |-> r.queues]

clear(queues, context) ==
    LET r == tx_queues_clear(queues, context) IN
    [ok |-> r.ok, err |-> IF r.ok THEN NoError ELSE QueueError, queues |-> r.queues]

\* ------------------------------------------------------------- AinExecutor
\* Executor::call: a message call (or a create, when ctx.to is none) run on the
\* backend; the changes reach the trie and the code store only with commit.
executor_call(s, tr, accounts, block_number, ctx, commit) ==
    LET caller == IF IsSome(ctx.caller) THEN Unwrap(ctx.caller) ELSE 0
        from == IF caller \in DOMAIN accounts THEN accounts[caller] ELSE EmptyAccount
        debited == ColPut(accounts, caller,
                          [from EXCEPT !.balance = @ - ctx.value, !.nonce = @ + 1])
        created == caller + MaxAddr + 1
        target == IF IsSome(ctx.to) THEN Unwrap(ctx.to) ELSE created
        old == IF target \in DOMAIN debited THEN debited[target] ELSE EmptyAccount
        changed ==
            IF IsSome(ctx.to)
            THEN ColPut(debited, target,
                        [old EXCEPT !.balance = @ + ctx.value,
                                    !.storage = IF old.code_hash # ZeroHash
                                                THEN ctx.data[1] ELSE @])
            ELSE ColPut(debited, target,
                        [old EXCEPT !.balance = @ + ctx.value,
                                    !.code_hash = CodeHash(ctx.data)])
        applied == IF IsSome(ctx.to) THEN s
                   ELSE put_code(s, block_number, CodeHash(ctx.data), ctx.data)
    IN IF from.balance < ctx.value
       THEN [store |-> s, trie |-> tr, exit_reason |-> "OutOfFund"]
       ELSE IF commit
       THEN [store |-> applied, trie |-> ColPut(tr, StateRoot(changed), changed),
             exit_reason |-> "Succeed"]
       ELSE [store |-> s, trie |-> tr, exit_reason |-> "Succeed"]

\* faulty variant: the handler runs the call with commit = true
call_committing(s, tr, caller, to, value, data, block_number) ==
    LET block == get_block_by_number(s, block_number)
        state_root == IF IsSome(block) THEN Unwrap(block).header.state_root ELSE ZeroHash
        number == IF IsSome(block) THEN Unwrap(block).header.number ELSE 0
        backend == backend_from_root(tr, state_root)
    IN IF IsSome(backend)
       THEN LET r == executor_call(s, tr, Unwrap(backend), number,
                        [caller |-> caller, to |-> to, value |-> value, data |-> data],
                        TRUE)
            IN [ok |-> TRUE, store |-> r.store, trie |-> r.trie,
                exit_reason |-> r.exit_reason]
       ELSE [ok |-> FALSE, store |-> s, trie |-> tr, exit_reason |-> "none"]

\* EVMHandler::call (gas limit and access list do not reach the stored state)
call(s, tr, caller, to, value, data, block_number) ==
    LET block == get_block_by_number(s, block_number)
        state_root == IF IsSome(block) THEN Unwrap(block).header.state_root ELSE ZeroHash
        number == IF IsSome(block) THEN Unwrap(block).header.number ELSE 0
        backend == backend_from_root(tr, state_root)
    IN IF IsSome(backend)
       THEN LET r == executor_call(s, tr, Unwrap(backend), number,
                        [caller |-> caller, to |-> to, value |-> value, data |-> data],
                        FALSE)
            IN [ok |-> TRUE, store |-> r.store, trie |-> r.trie,
                exit_reason |-> r.exit_reason]
       ELSE [ok |-> FALSE, store |-> s, trie |-> tr, exit_reason |-> "none"]

\* ------------------------------------------------------- handler behaviours
\* the world state at the start: address 1 holds a balance (no account when
\* it is 0), address 2 is a contract with code <<1>>
StartAccounts(balance, nonce) ==
    LET contract == (2 :> [balance |-> 0, nonce |-> 1, code_hash |-> CodeHash(<<1>>),
                           storage |-> 1])
    IN IF balance = 0 THEN contract
       ELSE (1 :> [balance |-> balance, nonce |-> nonce, code_hash |-> ZeroHash,
                   storage |-> 0]) @@ contract

\* the handler over a chain of one block whose state holds the accounts
InitHandler(balance, nonce) ==
        LET accounts == StartAccounts(balance, nonce)
            block == NewBlock(1, ZeroHash, StateRoot(accounts), <<>>)
        IN /\ balance = 0 => nonce = 0
           /\ store = persist_block(EmptyStore, block, 0, 1)
           /\ trie = (StateRoot(accounts) :> accounts)
           /\ tx_queues = <<>>
           /\ next_context = 1
           /\ last = [op |-> "init", ok |-> TRUE]
           /\ undo = <<>>
           /\ ops = 0
           /\ services = EmptyServices
           /\ indexed = <<>>
           /\ absorbed = <<>>
           /\ kvdb = <<>>
           /\ trie_mut = NoTrieMut
           /\ commits = <<>>
           /\ block_bloom = {}
           /\ receipt_blooms = <<>>
           /\ threads = [t \in Threads |-> Idle]
           /\ admitted = <<>>

InitEvm == \E balance \in 0..MaxBalance, nonce \in 0..1 : InitHandler(balance, nonce)

\* address 1 holds the highest balance and has sent no transaction
InitQueue == InitHandler(MaxBalance, 0)

Contexts == 1..MaxContexts
Hashes == 1..MaxHash
Amounts == 1..MaxAmount

\* the signed transactions of sender 1
SignedTxs == [sender : {1}, nonce : 0..MaxNonce, cost : 0..MaxCost]

RawTxs ==
    {[decodable |-> TRUE, tx |-> tx] : tx \in SignedTxs}
    \cup {[decodable |-> FALSE, tx |-> [sender |-> 1, nonce |-> 0, cost |-> 0]]}

RECURSIVE Queued(_, _)
Queued(queues, ids) ==
    IF ids = {} THEN 0
    ELSE LET c == CHOOSE x \in ids : TRUE IN Len(queues[c]) + Queued(queues, ids \ {c})

\* the queues hold at most MaxQueue entries in all
HasRoom == Queued(tx_queues, DOMAIN tx_queues) < MaxQueue

GetContext ==
    /\ next_context <= MaxContexts
    /\ tx_queues' = tx_queues_get_context(tx_queues, next_context)
    /\ next_context' = next_context + 1
    /\ last' = [op |-> "get_context", ok |-> TRUE, context |-> next_context]
    /\ UNCHANGED <<store, trie, undo, ops, oracleVars, trieVars, bloomVars, concVars>>

ValidateRawTx ==
    \E raw \in RawTxs :
        LET v == validate_raw_tx(store, trie, raw) IN
        /\ last' = [op |-> "validate_raw_tx", ok |-> v.ok, err |-> v.err, raw |-> raw]
        /\ UNCHANGED <<store, evmVars, undo, ops, oracleVars, trieVars, bloomVars, concVars>>

QueueTx ==
    \E context \in Contexts, tx \in SignedTxs, hash \in Hashes :
        LET r == queue_tx(tx_queues, context, SignedTxEntry(tx), hash) IN
        /\ HasRoom
        /\ tx_queues' = r.queues
        /\ last' = [op |-> "queue_tx", ok |-> r.ok, err |-> r.err,
                    context |-> context, tx |-> tx, hash |-> hash]
        /\ UNCHANGED <<store, trie, next_context, undo, ops, oracleVars, trieVars, bloomVars, concVars>>

AddBalance ==
    \E context \in Contexts, address \in Addresses, amount \in Amounts, hash \in Hashes :
        LET r == add_balance(tx_queues, context, address, amount, hash) IN
        /\ HasRoom
        /\ tx_queues' = r.queues
        /\ last' = [op |-> "add_balance", ok |-> r.ok, err |-> r.err, context |-> context,
                    address |-> address, amount |-> amount]
        /\ UNCHANGED <<store, trie, next_context, undo, ops, oracleVars, trieVars, bloomVars, concVars>>

SubBalance ==
    \E context \in Contexts, address \in Addresses, amount \in Amounts, hash \in Hashes :
        LET r == sub_balance(store, trie, tx_queues, context, address, amount, hash) IN
        /\ HasRoom
        /\ tx_queues' = r.queues
        /\ last' = [op |-> "sub_balance", ok |-> r.ok, err |-> r.err, context |-> context,
                    address |-> address, amount |-> amount, hash |-> hash]
        /\ UNCHANGED <<store, trie, next_context, undo, ops, oracleVars, trieVars, bloomVars, concVars>>

Clear ==
    \E context \in Contexts :
        LET r == clear(tx_queues, context) IN
        /\ tx_queues' = r.queues
        /\ last' = [op |-> "clear", ok |-> r.ok, err |-> r.err, context |-> context]
        /\ UNCHANGED <<store, trie, next_context, undo, ops, oracleVars, trieVars, bloomVars, concVars>>

OptAddresses == {None} \cup {Some(a) : a \in Addresses}

Call ==
    \E caller \in {None, Some(1)}, to \in OptAddresses, value \in 0..1,
       data \in {<<MaxCode>>}, block_number \in 0..1 :
        LET r == call(store, trie, caller, to, value, data, block_number) IN
        /\ store' = r.store
        /\ trie' = r.trie
        /\ last' = [op |-> "call", ok |-> r.ok, exit_reason |-> r.exit_reason]
        /\ UNCHANGED <<tx_queues, next_context, undo, ops, oracleVars, trieVars, bloomVars, concVars>>

NextEvm ==
    GetContext \/ ValidateRawTx \/ QueueTx \/ AddBalance \/ SubBalance \/ Clear \/ Call

SpecEvm == InitEvm /\ [][NextEvm]_vars

\* ---------------------------------------------- the handler under threads
\* The host calls the handler from several threads. A call runs in steps: the
\* entry is built (after the storage read of sub_balance), the queue map's
\* queue_tx runs under the queue's mutex, the handler returns to its caller;
\* between the steps of a call the other threads run.
\* the calls name a context that was handed out; the native hash of a call
\* is a new one, or the first call's again
QueueHashes == {1, ops + 1}

\* the calls a context answered with Ok since its last drain, in the order
\* they returned
Admitted(context) == IF context \in DOMAIN admitted THEN admitted[context] ELSE <<>>

\* TransactionQueueMap::drain_all: the entries of the context in order; the
\* queue is left empty
tx_queues_drain_all(queues, context) ==
    IF context \in DOMAIN queues
    THEN [entries |-> queues[context], queues |-> [queues EXCEPT ![context] = <<>>]]
    ELSE [entries |-> <<>>, queues |-> queues]

Calling == ops < MaxCalls

\* a thread enters EVMHandler::queue_tx or add_balance: the entry is built
BeginQueueTx ==
    \E t \in Threads, context \in DOMAIN tx_queues, hash \in QueueHashes,
       tx \in {SignedTxEntry([sender |-> 1, nonce |-> n, cost |-> 0]) : n \in 0..MaxNonce}
              \cup {EvmIn(1, MaxAmount)} :
        /\ Calling
        /\ threads[t] = Idle
        /\ threads' = [threads EXCEPT ![t] =
                          [pc |-> "queue_tx", context |-> context, tx |-> tx,
                           hash |-> hash, call |-> ops + 1]]
        /\ ops' = ops + 1
        /\ last' = [op |-> IF tx.kind = "EvmIn" THEN "add_balance.begin"
                           ELSE "queue_tx.begin",
                    ok |-> TRUE, thread |-> t]
        /\ UNCHANGED <<store, evmVars, undo, oracleVars, trieVars, bloomVars, admitted>>

\* a thread enters EVMHandler::sub_balance: the balance at the latest block is
\* read and compared; the call ends here when it is too low
BeginSubBalance ==
    \E t \in Threads, context \in DOMAIN tx_queues, hash \in QueueHashes,
       amount \in Amounts :
        \E balance \in {get_balance(store, trie, 1, LatestNumber(store))} :
        /\ Calling
        /\ threads[t] = Idle
        /\ threads' = [threads EXCEPT ![t] =
                          IF balance.ok /\ balance.value >= amount
                          THEN [pc |-> "queue_tx", context |-> context,
                                tx |-> EvmOut(1, amount), hash |-> hash, call |-> ops + 1]
                          ELSE Idle]
        /\ ops' = ops + 1
        /\ last' = [op |-> "sub_balance.begin",
                    ok |-> balance.ok /\ balance.value >= amount, thread |-> t]
        /\ UNCHANGED <<store, evmVars, undo, oracleVars, trieVars, bloomVars, admitted>>

\* self.tx_queues.queue_tx(context, queue_tx, hash)? of the call a thread is
\* in: the queue's step under its mutex; the thread holds the result
Admit ==
    \E t \in Threads :
        /\ threads[t] # Idle
        /\ threads[t].pc = "queue_tx"
        /\ \E r \in {queue_tx(tx_queues, threads[t].context, threads[t].tx,
                              threads[t].hash)} :
              /\ tx_queues' = r.queues
              /\ threads' = [threads EXCEPT ![t] =
                                [pc |-> "return", context |-> @.context, tx |-> @.tx,
                                 hash |-> @.hash, call |-> @.call, ok |-> r.ok,
                                 drained |-> FALSE]]
              /\ last' = [op |-> "tx_queues.queue_tx", ok |-> r.ok, thread |-> t,
                          context |-> threads[t].context]
        /\ UNCHANGED <<store, trie, next_context, undo, ops, oracleVars, trieVars, bloomVars,
                       admitted>>

\* the call of a thread returns to its caller; a call answered with Ok whose
\* entry no drain has taken yet is noted with the number of calls begun so far
Return ==
    \E t \in Threads :
        /\ threads[t] # Idle
        /\ threads[t].pc = "return"
        /\ admitted' =
              IF threads[t].ok /\ ~threads[t].drained
              THEN ColPut(admitted, threads[t].context,
                          Append(Admitted(threads[t].context),
                                 [tx |-> threads[t].tx, hash |-> threads[t].hash,
                                  thread |-> t, call |-> threads[t].call,
                                  returned |-> ops]))
              ELSE admitted
        /\ threads' = [threads EXCEPT ![t] = Idle]
        /\ last' = [op |-> "queue_tx", ok |-> threads[t].ok, thread |-> t,
                    context |-> threads[t].context]
        /\ UNCHANGED <<store, evmVars, undo, ops, oracleVars, trieVars, bloomVars>>

\* the finalization drains a context: the calls whose entries it takes are
\* struck from the notes
Drain ==
    \E context \in DOMAIN tx_queues :
        \E r \in {tx_queues_drain_all(tx_queues, context)} :
        /\ tx_queues[context] # <<>>
        /\ tx_queues' = r.queues
        /\ admitted' = ColPut(admitted, context, <<>>)
        /\ threads' = [t \in Threads |->
                          IF threads[t] # Idle /\ threads[t].pc = "return"
                             /\ threads[t].context = context
                          THEN [threads[t] EXCEPT !.drained = TRUE]
                          ELSE threads[t]]
        /\ last' = [op |-> "drain_all", ok |-> TRUE, context |-> context,
                    entries |-> r.entries]
        /\ UNCHANGED <<store, trie, next_context, undo, ops, oracleVars, trieVars, bloomVars>>

NextQueue ==
    \/ GetContext
    \/ BeginQueueTx
    \/ BeginSubBalance
    \/ Admit
    \/ Return
    \/ Drain

SpecQueue == InitQueue /\ [][NextQueue]_vars

\* -------------------------------------------------- concurrent store writers
\* BlockStore is a shared handle on the Rocks backend; a column get or put is
\* one atomic call, and put_logs and put_code make several of them with no
\* lock around them. A thread in one of the two is between two column calls.

\* put_logs after its get_logs returned cur: the insert into the map read, or
\* into a new map, and the put of the map
put_logs_insert_put(s, address, logs, block_number, cur) ==
    IF IsSome(cur)
    THEN [s EXCEPT !.address_logs_map =
              ColPut(@, block_number, ColPut(Unwrap(cur), address, logs))]
    ELSE [s EXCEPT !.address_logs_map =
              ColPut(@, block_number, ColPut(EmptyCol, address, logs))]

\* put_code after block_codes_cf.get returned cur: the insert into the set
\* read, or into the default set, and the put of the set
put_code_insert_put(s, block_number, hash, cur) ==
    LET block_codes == (IF IsSome(cur) THEN Unwrap(cur) ELSE {}) \cup {hash}
    IN [s EXCEPT !.block_code_hashes = ColPut(@, block_number, block_codes)]

\* code_cf.put_bytes(hash, code)
put_code_put_bytes(s, hash, code) == [s EXCEPT !.code_map = ColPut(@, hash, code)]

\* a thread that is in no call: it made none, or its last call returned
AtRest(t) == threads[t].pc \in {"idle", "returned"}

\* a thread enters put_logs: self.get_logs(&block_number)
PutLogsGet ==
    \E t \in Threads, address \in Addresses, number \in Numbers,
       logs \in {<<0>>, <<0, 1>>} :
        /\ Calling
        /\ AtRest(t)
        /\ threads' = [threads EXCEPT ![t] =
                          [pc |-> "put_logs", address |-> address, logs |-> logs,
                           number |-> number, map |-> get_logs(store, number)]]
        /\ ops' = ops + 1
        /\ last' = [op |-> "put_logs.get", ok |-> TRUE, thread |-> t]
        /\ UNCHANGED <<store, evmVars, undo, oracleVars, trieVars, bloomVars, admitted>>

\* the rest of put_logs: map.insert and logs_cf.put, then the call returns
PutLogsPut ==
    \E t \in Threads :
        /\ threads[t].pc = "put_logs"
        /\ store' = put_logs_insert_put(store, threads[t].address, threads[t].logs,
                                        threads[t].number, threads[t].map)
        /\ threads' = [threads EXCEPT ![t] =
                          [pc |-> "returned", op |-> "put_logs",
                           number |-> threads[t].number, address |-> threads[t].address,
                           logs |-> threads[t].logs]]
        /\ last' = [op |-> "put_logs.put", ok |-> TRUE, thread |-> t]
        /\ UNCHANGED <<evmVars, undo, ops, oracleVars, trieVars, bloomVars, admitted>>

\* a thread enters put_code: block_codes_cf.get(&block_number)
PutCodeGet ==
    \E t \in Threads, number \in Numbers, code \in Codes :
        /\ Calling
        /\ AtRest(t)
        /\ threads' = [threads EXCEPT ![t] =
                          [pc |-> "put_code", number |-> number, hash |-> CodeHash(code),
                           code |-> code,
                           block_codes |-> ColGet(store.block_code_hashes, number)]]
        /\ ops' = ops + 1
        /\ last' = [op |-> "put_code.get", ok |-> TRUE, thread |-> t]
        /\ UNCHANGED <<store, evmVars, undo, oracleVars, trieVars, bloomVars, admitted>>

\* put_code goes on: block_codes.insert and block_codes_cf.put
PutCodePut ==
    \E t \in Threads :
        /\ threads[t].pc = "put_code"
        /\ store' = put_code_insert_put(store, threads[t].number, threads[t].hash,
                                        threads[t].block_codes)
        /\ threads' = [threads EXCEPT ![t].pc = "put_code_bytes"]
        /\ last' = [op |-> "put_code.put", ok |-> TRUE, thread |-> t]
        /\ UNCHANGED <<evmVars, undo, ops, oracleVars, trieVars, bloomVars, admitted>>

\* the end of put_code: code_cf.put_bytes, then the call returns
PutCodePutBytes ==
    \E t \in Threads :
        /\ threads[t].pc = "put_code_bytes"
        /\ store' = put_code_put_bytes(store, threads[t].hash, threads[t].code)
        /\ threads' = [threads EXCEPT ![t] =
                          [pc |-> "returned", op |-> "put_code",
                           number |-> threads[t].number, hash |-> threads[t].hash,
                           code |-> threads[t].code]]
        /\ last' = [op |-> "put_code.put_bytes", ok |-> TRUE, thread |-> t]
        /\ UNCHANGED <<evmVars, undo, ops, oracleVars, trieVars, bloomVars, admitted>>

NextWriters ==
    \/ PutLogsGet
    \/ PutLogsPut
    \/ PutCodeGet
    \/ PutCodePut
    \/ PutCodePutBytes

SpecWriters == Init /\ [][NextWriters]_vars

\* ============================================================ oracle indexer
\* ------------------------------------------------------------ rust_decimal
Abs(x) == IF x < 0 THEN 0 - x ELSE x

\* the one element of a set: binds a computed value where it is used
Only(S) == CHOOSE v \in S : TRUE

\* A natural number of any size is the sequence of its digits in base 10000
\* (groups of four decimal digits), the most significant first, without
\* leading zeros; zero is the empty sequence. 1234567 is <<123, 4567>>.
Limb == 10000
LimbDigits == 4

RECURSIVE Pow10(_)
Pow10(n) == IF n = 0 THEN 1 ELSE 10 * Pow10(n - 1)

BigStrip(d) ==
    IF \A i \in 1..Len(d) : d[i] = 0 THEN <<>>
    ELSE SubSeq(d, CHOOSE i \in 1..Len(d) : d[i] # 0 /\ \A j \in 1..(i - 1) : d[j] = 0,
                Len(d))

RECURSIVE BigFromInt(_)
BigFromInt(n) == IF n = 0 THEN <<>> ELSE Append(BigFromInt(n \div Limb), n % Limb)

\* the number of the first k limbs; the limbs of a number an integer holds
RECURSIVE BigToIntUpTo(_, _)
BigToIntUpTo(d, k) == IF k = 0 THEN 0 ELSE BigToIntUpTo(d, k - 1) * Limb + d[k]

BigToInt(d) == BigToIntUpTo(d, Len(d))

\* the i-th limb from the least significant end
Lim(d, i) == IF i <= Len(d) THEN d[Len(d) + 1 - i] ELSE 0

\* the limbs of a sequence of n limbs counted from the least significant
FromLeast(f, n) == [i \in 1..n |-> f[n + 1 - i]]

\* the number of decimal digits of a limb, and of a number
LimbLength(x) == IF x >= 1000 THEN 4 ELSE IF x >= 100 THEN 3 ELSE IF x >= 10 THEN 2 ELSE 1
BigLength(d) == IF d = <<>> THEN 0 ELSE LimbDigits * (Len(d) - 1) + LimbLength(d[1])

BigLess(a, b) ==
    IF Len(a) # Len(b) THEN Len(a) < Len(b)
    ELSE \E i \in 1..Len(a) : a[i] < b[i] /\ \A j \in 1..(i - 1) : a[j] = b[j]

\* the carry out of limb i of a + b
RECURSIVE AddCarry(_, _, _)
AddCarry(a, b, i) ==
    IF i = 0 THEN 0 ELSE (Lim(a, i) + Lim(b, i) + AddCarry(a, b, i - 1)) \div Limb

BigAddLimbs(a, b, n) ==
    BigStrip(FromLeast([i \in 1..n |->
                           (Lim(a, i) + Lim(b, i) + AddCarry(a, b, i - 1)) % Limb], n))

BigAdd(a, b) ==
    Only({BigAddLimbs(x, y, (IF Len(x) > Len(y) THEN Len(x) ELSE Len(y)) + 1) :
             x \in {a}, y \in {b}})

\* the borrow out of limb i of a - b
RECURSIVE SubBorrow(_, _, _)
SubBorrow(a, b, i) ==
    IF i = 0 THEN 0
    ELSE IF Lim(a, i) - Lim(b, i) - SubBorrow(a, b, i - 1) < 0 THEN 1 ELSE 0

BigSubLimbs(a, b) ==
    BigStrip(FromLeast([i \in 1..Len(a) |->
                           (Lim(a, i) - Lim(b, i) - SubBorrow(a, b, i - 1) + Limb) % Limb],
                       Len(a)))

\* a - b for a >= b
BigSub(a, b) == Only({BigSubLimbs(x, y) : x \in {a}, y \in {b}})

\* the carry out of limb i of a * k
RECURSIVE MulCarry(_, _, _)
MulCarry(a, k, i) ==
    IF i = 0 THEN 0 ELSE (Lim(a, i) * k + MulCarry(a, k, i - 1)) \div Limb

BigMulLimbs(a, k, n) ==
    BigStrip(FromLeast([i \in 1..n |-> (Lim(a, i) * k + MulCarry(a, k, i - 1)) % Limb], n))

\* a * k for 0 <= k <= 100000
BigMulSmall(a, k) == Only({BigMulLimbs(x, k, Len(x) + 2) : x \in {a}})

\* the remainder of the first j limbs of a divided by k
RECURSIVE DivRest(_, _, _)
DivRest(a, k, j) == IF j = 0 THEN 0 ELSE (DivRest(a, k, j - 1) * Limb + a[j]) % k

BigDivLimbs(a, k) ==
    [q |-> BigStrip([j \in 1..Len(a) |-> (DivRest(a, k, j - 1) * Limb + a[j]) \div k]),
     r |-> DivRest(a, k, Len(a))]

\* a divided by k, 0 < k <= 100000: quotient and remainder
BigDivSmall(a, k) == Only({BigDivLimbs(x, k) : x \in {a}})

\* d * 10^n
BigShiftValue(d, n) ==
    IF d = <<>> THEN <<>>
    ELSE BigMulSmall(d, Pow10(n % LimbDigits)) \o [i \in 1..(n \div LimbDigits) |-> 0]

BigShift(d, n) == Only({BigShiftValue(x, n) : x \in {d}})

\* d without its last n decimal digits, n >= 1, and the digits cut: whole
\* limbs first, then the last 1 to 4 digits by a division
CutParts(d, n) ==
    LET limbs == (n - 1) \div LimbDigits
        p == Pow10(n - LimbDigits * limbs)
        kept == IF limbs < Len(d) THEN SubSeq(d, 1, Len(d) - limbs) ELSE <<>>
    IN Only({[q |-> c.q, r |-> c.r, p |-> p,
              low |-> \E i \in 1..limbs : Lim(d, i) # 0] : c \in {BigDivSmall(kept, p)}})

\* d without its last n decimal digits
BigCut(d, n) == IF n = 0 THEN d ELSE CutParts(d, n).q

\* d without its last n decimal digits, rounded half to even; sticky says
\* that the number d was cut from had digits other than zero after those of d
BigRoundParts(c, sticky) ==
    IF \/ 2 * c.r > c.p
       \/ 2 * c.r = c.p /\ (c.low \/ sticky)
       \/ 2 * c.r = c.p /\ ~c.low /\ ~sticky /\ Lim(c.q, 1) % 2 = 1
    THEN BigAdd(c.q, <<1>>)
    ELSE c.q

BigRound(d, n, sticky) ==
    IF n = 0 THEN d ELSE Only({BigRoundParts(c, sticky) : c \in {CutParts(d, n)}})

\* the number of zeros the decimal digits of d end with
RECURSIVE LimbZeros(_)
LimbZeros(x) == IF x % 10 # 0 THEN 0 ELSE 1 + LimbZeros(x \div 10)

BigZeros(d) ==
    IF d = <<>> THEN 0
    ELSE LET i == CHOOSE n \in 1..Len(d) : Lim(d, n) # 0 /\ \A j \in 1..(n - 1) : Lim(d, j) = 0
         IN LimbDigits * (i - 1) + LimbZeros(Lim(d, i))

\* Decimal: a mantissa of 96 bits, a scale of 0 to 28 fractional digits, a
\* sign; the value is mantissa / 10^scale, and two Decimals print the same
\* when mantissa, scale and sign are the same
MaxScale == 28
MaxMantissa == <<7, 9228, 1625, 1426, 4337, 5935, 4395, 335>>
MaxLength == 29

Fits(m) == ~BigLess(MaxMantissa, m)

\* what an operation gives when its result is beyond the 96 bits at scale 0:
\* the operators of Decimal panic
DecOverflow == [neg |-> FALSE, m |-> <<>>, scale |-> 0 - 1]
IsOverflow(a) == a.scale < 0

Larger(a, b) == IF a > b THEN a ELSE b

\* the Decimal nearest to m / 10^scale, when m is too long or the scale too
\* high: cut digits are rounded half to even, as few as make the result fit
DecRound(neg, m, scale, sticky) ==
    LET cut == Larger(Larger(scale - MaxScale, BigLength(m) - MaxLength), 0) IN
    IF cut <= scale /\ Fits(BigRound(m, cut, sticky))
    THEN [neg |-> neg, m |-> BigRound(m, cut, sticky), scale |-> scale - cut]
    ELSE IF cut + 1 <= scale
    THEN [neg |-> neg, m |-> BigRound(m, cut + 1, sticky), scale |-> scale - cut - 1]
    ELSE DecOverflow

\* the Decimal of m / 10^scale, the exact result of an operation
DecFitValue(neg, m, scale) ==
    IF scale <= MaxScale /\ Fits(m) THEN [neg |-> neg, m |-> m, scale |-> scale]
    ELSE DecRound(neg, m, scale, FALSE)

DecFit(neg, m, scale) == Only({DecFitValue(neg, x, scale) : x \in {m}})

\* Decimal::from of an integer
DecFrom(i) == [neg |-> i < 0, m |-> BigFromInt(Abs(i)), scale |-> 0]
\* a + b of two values: the mantissas at the larger scale, added or subtracted
DecAddAligned(a, b, x, y, scale) ==
    IF a.neg = b.neg THEN DecFit(a.neg, BigAdd(x, y), scale)
    ELSE IF BigLess(x, y) THEN DecFit(b.neg, BigSub(y, x), scale)
    ELSE IF x = y THEN DecFit(FALSE, <<>>, scale)
    ELSE DecFit(a.neg, BigSub(x, y), scale)

DecAddValues(a, b) ==
    Only({DecAddAligned(a, b, x, y, Larger(a.scale, b.scale)) :
             x \in {BigShift(a.m, Larger(a.scale, b.scale) - a.scale)},
             y \in {BigShift(b.m, Larger(a.scale, b.scale) - b.scale)}})

\* a + b: a zero operand gives the other operand as it is, with its scale
DecAdd(a, b) ==
    Only({IF IsOverflow(x) \/ IsOverflow(y) THEN DecOverflow
          ELSE IF x.m = <<>> THEN y
          ELSE IF y.m = <<>> THEN x
          ELSE DecAddValues(x, y) :
             x \in {a}, y \in {b}})

\* a - b: 0 - b is b with the other sign (b as it is when b is zero), a - 0
\* is a as it is
DecSub(a, b) ==
    Only({IF IsOverflow(x) \/ IsOverflow(y) THEN DecOverflow
          ELSE IF x.m = <<>> THEN (IF y.m = <<>> THEN y ELSE [y EXCEPT !.neg = ~y.neg])
          ELSE IF y.m = <<>> THEN x
          ELSE DecAddValues(x, [y EXCEPT !.neg = ~y.neg]) :
             x \in {a}, y \in {b}})

\* Decimal::ZERO: zero at scale 0
DecZero == [neg |-> FALSE, m |-> <<>>, scale |-> 0]

\* a * b for a b made from an integer up to 100000, as every multiplier of
\* the indexer is (Decimal::from of a count); a zero operand gives
\* Decimal::ZERO
DecMul(a, b) ==
    Only({IF IsOverflow(x) \/ IsOverflow(y) THEN DecOverflow
          ELSE IF x.m = <<>> \/ y.m = <<>> THEN DecZero
          ELSE DecFit(x.neg # y.neg, BigMulSmall(x.m, BigToInt(y.m)), x.scale + y.scale) :
             x \in {a}, y \in {b}})

\* a without the zeros that end its fraction; a zero is Decimal::ZERO, with
\* no sign and no scale
DecStripValue(a, zeros) ==
    IF IsOverflow(a) THEN a
    ELSE IF a.m = <<>> THEN DecZero
    ELSE IF zeros = 0 THEN a
    ELSE [neg |-> a.neg, m |-> BigCut(a.m, zeros), scale |-> a.scale - zeros]

DecStrip(a) ==
    Only({DecStripValue(x, IF BigZeros(x.m) < x.scale THEN BigZeros(x.m) ELSE x.scale) :
             x \in {a}})

\* the quotient q at the highest scale, rounded half to even by the
\* remainder r of the division by k
DecDivRounded(neg, q, r, k, scale) ==
    IF 2 * r > k \/ (2 * r = k /\ Lim(q, 1) % 2 = 1)
    THEN DecFit(neg, BigAdd(q, <<1>>), scale)
    ELSE [neg |-> neg, m |-> q, scale |-> scale]

\* the quotient of m / 10^scale by k when m leaves a remainder, from the
\* division d of m * 10^more by k: the longest quotient that fits, rounded
\* once, half to even, by all that follows its last digit; then the zeros
\* that end the fraction are taken off
DecDivQuotient(neg, d, k, scale, more) ==
    IF Fits(d.q)
    THEN DecStrip(DecDivRounded(neg, d.q, d.r, k, scale + more))
    ELSE DecStrip(DecRound(neg, d.q, scale + more, d.r # 0))

\* m / (k * 10^scale) as a Decimal: Decimal::ZERO for a zero dividend; the
\* quotient at the dividend's scale when nothing is left
DecDivFrom(neg, m, k, scale) ==
    IF m = <<>> THEN DecZero
    ELSE Only({IF d.r = 0 THEN [neg |-> neg, m |-> d.q, scale |-> scale]
               ELSE Only({DecDivQuotient(neg, e, k, scale, MaxScale - scale) :
                             e \in {BigDivSmall(BigShift(m, MaxScale - scale), k)}}) :
                  d \in {BigDivSmall(m, k)}})

\* a / b for a b made from an integer up to 100000, as every divisor of the
\* indexer is (Decimal::from, Decimal::from_i32); b is not zero: the
\* division by zero panics
DecDiv(a, b) ==
    Only({IF IsOverflow(x) \/ IsOverflow(y) THEN DecOverflow
          ELSE DecDivFrom(x.neg # y.neg, x.m, BigToInt(y.m), x.scale) :
             x \in {a}, y \in {b}})

\* the digits before the point
DecWhole(a) == BigCut(a.m, a.scale)

\* Decimal::trunc of a value an integer holds: the integer part, toward zero
DecTrunc(a) ==
    Only({IF x.neg THEN 0 - BigToInt(DecWhole(x)) ELSE BigToInt(DecWhole(x)) : x \in {a}})

\* the range of i32, at the model's width
I32Max == 2 ^ (I32Bits - 1) - 1
I32Min == 0 - I32Max - 1

\* Decimal::to_i32: the integer part when it is an i32, none otherwise
DecToI32(a) ==
    Only({IF BigLess(BigFromInt(IF x.neg THEN I32Max + 1 ELSE I32Max), DecWhole(x))
          THEN None ELSE Some(DecTrunc(x)) : x \in {a}})

\* format!("{:.8}", d) parsed back: d with 8 fractional digits, zeros added
\* to a shorter fraction and the digits after the eighth cut from a longer
FractionDigits == 8
DecFormat8(a) ==
    Only({IF IsOverflow(x) THEN x
          ELSE IF x.scale <= FractionDigits
          THEN [x EXCEPT !.m = BigShift(x.m, FractionDigits - x.scale),
                         !.scale = FractionDigits]
          ELSE [x EXCEPT !.m = BigCut(x.m, x.scale - FractionDigits),
                         !.scale = FractionDigits] : x \in {a}})

\* a and b are the same amount up to the fixed-point precision: they differ
\* by at most one unit of the eighth fractional digit
DecNear(a, b) ==
    Only({/\ ~IsOverflow(d)
          /\ ~BigLess(BigShift(<<1>>, d.scale), BigShift(d.m, FractionDigits)) :
             d \in {DecSub(a, b)}})

\* ------------------------------------------------------- repository access
\* keys are tuples of numbers, ordered field by field as their bytes are
RECURSIVE LexLess(_, _, _)
LexLess(a, b, i) ==
    IF i > Len(a) \/ i > Len(b) THEN Len(a) < Len(b)
    ELSE IF a[i] # b[i] THEN a[i] < b[i]
    ELSE LexLess(a, b, i + 1)

KeyLess(a, b) == LexLess(a, b, 1)

RECURSIVE SortedKeys(_)
SortedKeys(S) ==
    IF S = {} THEN <<>>
    ELSE LET m == CHOOSE x \in S : \A y \in S : ~KeyLess(y, x)
         IN <<m>> \o SortedKeys(S \ {m})

Reverse(s) == [i \in 1..Len(s) |-> s[Len(s) + 1 - i]]

\* RepositoryOps::list(from, order): the rows from key `from` on, in key order
\* (Ascending: keys >= from upward; Descending: keys <= from downward)
list(col, from, order) ==
    LET keys == IF from = None THEN DOMAIN col
                ELSE IF order = "Ascending"
                     THEN {k \in DOMAIN col : ~KeyLess(k, Unwrap(from))}
                     ELSE {k \in DOMAIN col : ~KeyLess(Unwrap(from), k)}
        sorted == IF order = "Ascending" THEN SortedKeys(keys)
                  ELSE Reverse(SortedKeys(keys))
    IN [i \in 1..Len(sorted) |-> <<sorted[i], col[sorted[i]]>>]

\* Iterator::take(n)
take(rows, n) == IF Len(rows) <= n THEN rows ELSE SubSeq(rows, 1, n)

\* what an indexer call returns: the stores, and Ok, Err or Panic
Ok(s) == [services |-> s, result |-> "Ok"]
Err(s) == [services |-> s, result |-> "Err"]
Panic(s) == [services |-> s, result |-> "Panic"]

\* -------------------------------------------------------------- AppointOracle
\* the loop over price_feeds of AppointOracle::index, first n pairs
RECURSIVE appoint_token_currency(_, _, _, _)
appoint_token_currency(s, ev, ctx, n) ==
    IF n = 0 THEN s
    ELSE LET p == appoint_token_currency(s, ev, ctx, n - 1)
             token_currency == ev.price_feeds[n]
             oracle_id == ctx.tx.txid
             id == <<token_currency.token, token_currency.currency, oracle_id>>
             oracle_token_currency ==
                 [id |-> id,
                  key |-> <<token_currency.token, token_currency.currency, ctx.block.height>>,
                  token |-> token_currency.token,
                  currency |-> token_currency.currency,
                  oracle_id |-> oracle_id,
                  weightage |-> ev.weightage,
                  block |-> ctx.block]
         IN [p EXCEPT
               !.oracle_token_currency.by_key =
                   ColPut(@, oracle_token_currency.key, oracle_token_currency.id),
               !.oracle_token_currency.by_id =
                   ColPut(@, oracle_token_currency.id, oracle_token_currency)]

AppointOracle_index(s, ev, ctx) ==
    LET oracle_id == ctx.tx.txid
        oracle == [id |-> oracle_id,
                   owner_address |-> ev.script,
                   weightage |-> ev.weightage,
                   price_feeds |-> ev.price_feeds,
                   block |-> ctx.block]
        oracle_history == [id |-> <<ctx.tx.txid, ctx.block.height, oracle_id>>,
                           oracle_id |-> ctx.tx.txid,
                           sort |-> <<ctx.block.height, ctx.tx.txid>>,
                           owner_address |-> ev.script,
                           weightage |-> ev.weightage,
                           price_feeds |-> ev.price_feeds,
                           block |-> ctx.block]
        s1 == [s EXCEPT !.oracle.by_id = ColPut(@, <<oracle.id>>, oracle)]
        s2 == [s1 EXCEPT !.oracle_history.by_id =
                            ColPut(@, oracle_history.id, oracle_history)]
        s3 == [s2 EXCEPT !.oracle_history.by_key =
                            ColPut(@, <<oracle_history.oracle_id>>, oracle_history.id)]
    IN Ok(appoint_token_currency(s3, ev, ctx, Len(ev.price_feeds)))

\* the loop over price_feeds of AppointOracle::invalidate, first n pairs
RECURSIVE unappoint_token_currency(_, _, _, _)
unappoint_token_currency(s, ev, context, n) ==
    IF n = 0 THEN s
    ELSE LET p == unappoint_token_currency(s, ev, context, n - 1)
             currency_pair == ev.price_feeds[n]
             oracle_id == context.tx.txid
             token_currency_id == <<currency_pair.token, currency_pair.currency, oracle_id>>
             token_currency_key ==
                 <<currency_pair.token, currency_pair.currency, context.block.height>>
         IN [p EXCEPT
               !.oracle_token_currency.by_id = ColDelete(@, token_currency_id),
               !.oracle_token_currency.by_key = ColDelete(@, token_currency_key)]

AppointOracle_invalidate(s, ev, context) ==
    LET oracle_id == context.tx.txid
        s1 == [s EXCEPT !.oracle.by_id = ColDelete(@, <<oracle_id>>)]
        s2 == [s1 EXCEPT !.oracle_history.by_id =
                  ColDelete(@, <<oracle_id, context.block.height, context.tx.txid>>)]
    IN Ok(unappoint_token_currency(s2, ev, context, Len(ev.price_feeds)))

\* ---------------------------------------------------------- interval buckets
\* OracleIntervalSeconds
FifteenMinutes == 900
OneHour == 3600
OneDay == 86400
Intervals == <<FifteenMinutes, OneHour, OneDay>>

\* faulty variant: the mean is stored as computed, whatever its size
forward_aggregate_number_unchecked(last_value, new_value, count) ==
    DecTrunc(DecDiv(DecAdd(DecMul(DecFrom(last_value), DecFrom(count)), DecFrom(new_value)),
                    DecAdd(DecFrom(count), DecFrom(1))))

forward_aggregate_number(last_value, new_value, count) ==
    Only({IF IsSome(result) THEN Unwrap(result) ELSE I32Max :
             result \in {DecToI32(DecDiv(DecAdd(DecMul(DecFrom(last_value), DecFrom(count)),
                                                DecFrom(new_value)),
                                         DecAdd(DecFrom(count), DecFrom(1))))}})

forward_aggregate_value(last_value, new_value, count) ==
    DecDiv(DecAdd(DecMul(last_value, DecFrom(count)), new_value),
           DecAdd(DecFrom(count), DecFrom(1)))

\* the divisor count - 1 is not zero
backward_aggregate_value(last_value, new_value, count) ==
    DecDiv(DecSub(DecMul(last_value, DecFrom(count)), new_value),
           DecSub(DecFrom(count), DecFrom(1)))

\* the divisor count - 1 is not zero
backward_aggregate_number(last_value, new_value, count) ==
    Only({IF IsSome(result) THEN Unwrap(result) ELSE 0 :
             result \in {DecToI32(DecDiv(DecSub(DecMul(DecFrom(last_value), DecFrom(count)),
                                                DecFrom(new_value)),
                                         DecSub(DecFrom(count), DecFrom(1))))}})

\* the i32 and count arguments the integer means are called with
I32Values == {I32Min, 0 - 1, 0, 1, 2, I32Max - 1, I32Max}
ForwardCounts == {0 - 2, 0 - 1, 0, 1, 2}
BackwardCounts == {0, 1, 2, 3}

\* one call of forward_aggregate_number; Decimal's division panics on a zero
\* divisor
ForwardAggregateNumber ==
    \E last_value \in I32Values, new_value \in I32Values, count \in ForwardCounts :
        /\ last' = [op |-> "forward_aggregate_number", last_value |-> last_value,
                    new_value |-> new_value, count |-> count,
                    result |-> IF count + 1 = 0 THEN "Panic" ELSE "Ok",
                    value |-> IF count + 1 = 0 THEN 0
                              ELSE forward_aggregate_number(last_value, new_value, count)]
        /\ UNCHANGED <<chainVars, ops, oracleVars>>

\* one call of backward_aggregate_number
BackwardAggregateNumber ==
    \E last_value \in I32Values, new_value \in I32Values, count \in BackwardCounts :
        /\ last' = [op |-> "backward_aggregate_number", last_value |-> last_value,
                    new_value |-> new_value, count |-> count,
                    result |-> IF count - 1 = 0 THEN "Panic" ELSE "Ok",
                    value |-> IF count - 1 = 0 THEN 0
                              ELSE backward_aggregate_number(last_value, new_value, count)]
        /\ UNCHANGED <<chainVars, ops, oracleVars>>

NextMeans ==
    \/ ForwardAggregateNumber
    \/ BackwardAggregateNumber

SpecMeans == Init /\ [][NextMeans]_vars

\* the amount process_inner_values stores
process_inner_amount(previous_data, aggregated) ==
    forward_aggregate_value(previous_data.aggregated.amount, aggregated.aggregated.amount,
                            previous_data.aggregated.count + 1)

process_inner_values(s, previous_data, aggregated) ==
    Only({
    LET lastprice == previous_data.aggregated
        count == lastprice.count + 1
        aggregated_interval ==
            [id |-> previous_data.id,
             key |-> previous_data.key,
             sort |-> previous_data.sort,
             token |-> previous_data.token,
             currency |-> previous_data.currency,
             aggregated |->
                 [amount |-> amount,
                  weightage |-> forward_aggregate_number(
                                 lastprice.weightage, aggregated.aggregated.weightage, count),
                  count |-> count,
                  oracles |->
                      [active |-> forward_aggregate_number(
                                      lastprice.oracles.active,
                                      aggregated.aggregated.oracles.active, lastprice.count),
                       total |-> forward_aggregate_number(
                                      lastprice.oracles.total,
                                      aggregated.aggregated.oracles.total, lastprice.count)]],
             block |-> previous_data.block]
    IN [s EXCEPT
          !.oracle_price_aggregated_interval.by_id =
              ColPut(@, aggregated_interval.id, aggregated_interval),
          !.oracle_price_aggregated_interval.by_key =
              ColPut(@, aggregated_interval.key, aggregated_interval.id)] :
    amount \in {process_inner_amount(previous_data, aggregated)}})

\* the first row the scan of by_key yields, with its by_id row:
\* [result, rows] where a by_key entry without a by_id row is an error
first_interval(s, token, currency, interval, order) ==
    LET rows == take(list(s.oracle_price_aggregated_interval.by_key,
                          Some(<<token, currency, interval>>), order), 1)
    IN IF rows = <<>> THEN [result |-> "Ok", rows |-> <<>>]
       ELSE LET row == ColGet(s.oracle_price_aggregated_interval.by_id, rows[1][2])
            IN IF IsSome(row) THEN [result |-> "Ok", rows |-> <<Unwrap(row)>>]
               ELSE [result |-> "Err", rows |-> <<>>]

index_interval_mapper(s, block, token, currency, aggregated, interval) ==
    LET previous == first_interval(s, token, currency, interval, "Ascending") IN
    IF previous.result = "Ok"
    THEN IF previous.rows = <<>>
            \/ block.median_time - previous.rows[1].block.median_time > interval
         THEN LET oracle_price_aggregated_interval ==
                      [id |-> <<token, currency, interval, block.height>>,
                       key |-> <<token, currency, interval>>,
                       sort |-> aggregated.sort,
                       token |-> token,
                       currency |-> currency,
                       aggregated |->
                           [amount |-> aggregated.aggregated.amount,
                            weightage |-> aggregated.aggregated.weightage,
                            count |-> 1,
                            oracles |->
                                [active |-> aggregated.aggregated.oracles.active,
                                 total |-> aggregated.aggregated.oracles.total]],
                       block |-> block]
              IN Ok([s EXCEPT
                       !.oracle_price_aggregated_interval.by_id =
                           ColPut(@, oracle_price_aggregated_interval.id,
                                  oracle_price_aggregated_interval),
                       !.oracle_price_aggregated_interval.by_key =
                           ColPut(@, oracle_price_aggregated_interval.key,
                                  oracle_price_aggregated_interval.id)])
         ELSE IF IsOverflow(process_inner_amount(previous.rows[1], aggregated))
         THEN Panic(s)      \* Decimal overflow
         ELSE Ok(process_inner_values(s, previous.rows[1], aggregated))
    ELSE Err(s)

invalidate_oracle_interval(s, token, currency, aggregated, interval) ==
    LET found == first_interval(s, token, currency, interval, "Descending") IN
    IF found.result = "Ok"
    THEN IF found.rows = <<>>
         THEN Panic(s)      \* oracle_price_aggreated[0] on an empty Vec
         ELSE LET bucket == found.rows[1] IN
              IF bucket.aggregated.count # 1
              THEN Ok([s EXCEPT !.oracle_price_aggregated_interval.by_id =
                                    ColDelete(@, bucket.id)])
              ELSE LET lastprice == bucket.aggregated
                       count == lastprice.count - 1
                   IN \* the fields are computed in order: amount and weightage
                      \* divide by count - 1, the oracle counts by lastprice.count - 1
                      IF count = 1 \/ lastprice.count = 1
                      THEN Panic(s)
                      ELSE LET previous_aggregated_interval ==
                                  [id |-> bucket.id,
                                   key |-> bucket.key,
                                   sort |-> bucket.sort,
                                   token |-> bucket.token,
                                   currency |-> bucket.currency,
                                   aggregated |->
                                       [amount |-> backward_aggregate_value(
                                                      lastprice.amount,
                                                      aggregated.aggregated.amount, count),
                                        weightage |-> backward_aggregate_number(
                                                      lastprice.weightage,
                                                      aggregated.aggregated.weightage, count),
                                        count |-> count,
                                        oracles |->
                                            [active |-> backward_aggregate_number(
                                                            lastprice.oracles.active,
                                                            aggregated.aggregated.oracles.active,
                                                            lastprice.count),
                                             total |-> backward_aggregate_number(
                                                            lastprice.oracles.total,
                                                            aggregated.aggregated.oracles.total,
                                                            lastprice.count)]],
                                   block |-> bucket.block]
                           IN Ok([s EXCEPT
                                    !.oracle_price_aggregated_interval.by_id =
                                        ColPut(@, previous_aggregated_interval.id,
                                               previous_aggregated_interval),
                                    !.oracle_price_aggregated_interval.by_key =
                                        ColPut(@, previous_aggregated_interval.key,
                                               previous_aggregated_interval.id)])
    ELSE Err(s)

\* -------------------------------------------------------------- SetOracleData
\* the feeds of token_prices[t].prices[1..n]
RECURSIVE map_prices(_, _, _, _)
map_prices(set_oracle_data, context, t, n) ==
    IF n = 0 THEN <<>>
    ELSE LET token_price == set_oracle_data.token_prices[t]
             token_amount == token_price.prices[n]
             token == token_price.token
             currency == token_amount.currency
         IN Append(map_prices(set_oracle_data, context, t, n - 1),
                   [id |-> <<token, currency, set_oracle_data.oracle_id, context.tx.txid>>,
                    key |-> <<token, currency, set_oracle_data.oracle_id>>,
                    sort |-> <<context.block.height, context.tx.txid>>,
                    amount |-> token_amount.amount,
                    currency |-> currency,
                    block |-> context.block,
                    oracle_id |-> set_oracle_data.oracle_id,
                    time |-> set_oracle_data.timestamp,
                    token |-> token,
                    txid |-> context.tx.txid])

\* the feeds of token_prices[1..t]
RECURSIVE map_token_prices(_, _, _)
map_token_prices(set_oracle_data, context, t) ==
    IF t = 0 THEN <<>>
    ELSE map_token_prices(set_oracle_data, context, t - 1)
         \o map_prices(set_oracle_data, context, t,
                       Len(set_oracle_data.token_prices[t].prices))

map_price_feeds(set_oracle_data, context) ==
    map_token_prices(set_oracle_data, context, Len(set_oracle_data.token_prices))

\* the first loop of SetOracleData::index: the raw rows of feeds[1..n]
RECURSIVE put_feeds(_, _, _)
put_feeds(s, feeds, n) ==
    IF n = 0 THEN s
    ELSE LET p == put_feeds(s, feeds, n - 1)
             feed == feeds[n]
         IN [p EXCEPT !.oracle_price_feed.by_key = ColPut(@, feed.key, feed.id),
                      !.oracle_price_feed.by_id = ColPut(@, feed.id, feed)]

\* the oracle_token_currency rows the scan of by_key yields for the pair
RECURSIVE oracle_rows(_, _, _, _, _)
oracle_rows(s, rows, token, currency, n) ==
    IF n = 0 THEN <<>>
    ELSE LET before == oracle_rows(s, rows, token, currency, n - 1)
             id == rows[n][2]
             b == ColGet(s.oracle_token_currency.by_id, id)
         IN IF id[1] = token /\ id[2] = currency /\ IsSome(b)
            THEN Append(before, Unwrap(b))
            ELSE before

oracle_entries(s, token, currency) ==
    LET rows == list(s.oracle_token_currency.by_key, Some(<<token, currency, 0>>),
                     "Ascending")
    IN oracle_rows(s, rows, token, currency, Len(rows))

\* the age a feed may have to count
FreshSeconds == 3600

\* the loop over oracle_entries[1..n]: count, weightage and total so far
RECURSIVE sum_entries(_, _, _, _)
sum_entries(s, entries, context, n) ==
    IF n = 0 THEN [count |-> 0, weightage |-> 0, total |-> DecFrom(0)]
    ELSE LET acc == sum_entries(s, entries, context, n - 1)
             oracle == entries[n]
             key == <<oracle.token, oracle.currency, oracle.oracle_id>>
             oracle_price_id == ColGet(s.oracle_price_feed.by_key, key)
             oracle_price == IF IsSome(oracle_price_id)
                             THEN ColGet(s.oracle_price_feed.by_id, Unwrap(oracle_price_id))
                             ELSE None
         IN IF oracle.weightage = 0 THEN acc
            ELSE IF IsSome(oracle_price)
                    /\ Unwrap(oracle_price).time - context.block.time < FreshSeconds
            THEN [count |-> acc.count + 1,
                  weightage |-> acc.weightage + oracle.weightage,
                  total |-> DecAdd(acc.total,
                                   DecFrom(Unwrap(oracle_price).amount * oracle.weightage))]
            ELSE acc

\* the loop over intervals[1..n] of SetOracleData::index; an error ends it
RECURSIVE index_intervals(_, _, _, _, _, _)
index_intervals(s, block, token, currency, aggregated, n) ==
    IF n = 0 THEN Ok(s)
    ELSE LET p == index_intervals(s, block, token, currency, aggregated, n - 1) IN
         IF p.result # "Ok" THEN p
         ELSE index_interval_mapper(p.services, block, token, currency, aggregated,
                                    Intervals[n])

\* one iteration of the loop over pairs of SetOracleData::index
index_pair(s, context, token, currency) ==
    LET entries == oracle_entries(s, token, currency) IN
    IF entries = <<>> THEN Ok(s)
    ELSE LET total_count == Len(entries)
             sum == sum_entries(s, entries, context, Len(entries))
         IN IF sum.weightage = 0 THEN Panic(s)      \* Decimal division by zero
            ELSE Only({
                 IF IsOverflow(amount) THEN Panic(s)   \* Decimal overflow
                 ELSE
                 LET value == [id |-> <<token, currency, context.block.height>>,
                               key |-> <<token, currency>>,
                               sort |-> <<context.block.median_time, context.block.height>>,
                               token |-> token,
                               currency |-> currency,
                               aggregated |->
                                   [amount |-> amount,
                                    weightage |-> sum.weightage,
                                    oracles |-> [active |-> sum.count,
                                                 total |-> total_count]],
                               block |-> context.block]
                     price_ticker_id == <<token, currency>>
                     price_ticker_key == <<total_count, context.block.height, token, currency>>
                     price_ticker == [id |-> price_ticker_id,
                                      sort |-> price_ticker_key,
                                      price |-> value]
                     s1 == [s EXCEPT
                              !.oracle_price_aggregated.by_id = ColPut(@, value.id, value),
                              !.price_ticker.by_key =
                                  ColPut(@, price_ticker_key, price_ticker.id),
                              !.price_ticker.by_id =
                                  ColPut(@, price_ticker.id, price_ticker)]
                 IN index_intervals(s1, context.block, token, currency, value,
                                    Len(Intervals)) :
                 amount \in {DecFormat8(DecDiv(sum.total, DecFrom(sum.weightage)))}})

\* the loop over pairs[1..n] of SetOracleData::index; an error or a panic ends it
RECURSIVE index_pairs(_, _, _, _)
index_pairs(s, context, pairs, n) ==
    IF n = 0 THEN Ok(s)
    ELSE LET p == index_pairs(s, context, pairs, n - 1) IN
         IF p.result # "Ok" THEN p
         ELSE index_pair(p.services, context, pairs[n].token, pairs[n].currency)

SetOracleData_index(s, ev, context) ==
    LET feeds == map_price_feeds(ev, context)
        s1 == put_feeds(s, feeds, Len(feeds))
    IN index_pairs(s1, context, feeds, Len(feeds))

\* what the loop over oracle_entries[1..n] prints: a line for each oracle it
\* skips for a zero weightage
RECURSIVE printed_entries(_, _)
printed_entries(entries, n) ==
    IF n = 0 THEN <<>>
    ELSE IF entries[n].weightage = 0
    THEN Append(printed_entries(entries, n - 1),
                [line |-> "Skipping oracle with zero weightage",
                 token |-> entries[n].token, currency |-> entries[n].currency,
                 oracle_id |-> entries[n].oracle_id])
    ELSE printed_entries(entries, n - 1)

\* what the loop over pairs[1..n] prints: the lines of each pair it reaches;
\* the continue of a pair without oracle entries prints nothing
RECURSIVE printed_pairs(_, _, _, _)
printed_pairs(s, context, pairs, n) ==
    IF n = 0 THEN <<>>
    ELSE Only({printed_pairs(s, context, pairs, n - 1)
                 \o (IF p.result # "Ok" THEN <<>>
                     ELSE Only({printed_entries(entries, Len(entries)) :
                                  entries \in {oracle_entries(p.services, pairs[n].token,
                                                              pairs[n].currency)}})) :
               p \in {index_pairs(s, context, pairs, n - 1)}})

\* the lines SetOracleData::index writes to the standard output
SetOracleData_printed(s, ev, context) ==
    LET feeds == map_price_feeds(ev, context)
        s1 == put_feeds(s, feeds, Len(feeds))
    IN printed_pairs(s1, context, feeds, Len(feeds))

\* the first loop of SetOracleData::invalidate: the raw rows of feeds[1..n]
RECURSIVE delete_feeds(_, _, _)
delete_feeds(s, feeds, n) ==
    IF n = 0 THEN s
    ELSE LET p == delete_feeds(s, feeds, n - 1)
             feed == feeds[n]
         IN [p EXCEPT !.oracle_price_feed.by_id = ColDelete(@, feed.id),
                      !.oracle_price_feed.by_key = ColDelete(@, feed.key)]

\* the loop over intervals[1..n] of SetOracleData::invalidate: what a call
\* returns is dropped, a panic ends it
RECURSIVE invalidate_intervals(_, _, _, _, _)
invalidate_intervals(s, token, currency, aggregated, n) ==
    IF n = 0 THEN Ok(s)
    ELSE LET p == invalidate_intervals(s, token, currency, aggregated, n - 1) IN
         IF p.result = "Panic" THEN p
         ELSE invalidate_oracle_interval(p.services, token, currency, aggregated,
                                         Intervals[n])

\* the row of the aggregate is deleted after the interval calls
delete_aggregated(r, aggreated_id) ==
    IF r.result = "Panic" THEN r
    ELSE Ok([r.services EXCEPT
               !.oracle_price_aggregated.by_id = ColDelete(@, aggreated_id)])

\* one iteration of the second loop of SetOracleData::invalidate
invalidate_pair(s, context, token, currency) ==
    LET aggreated_id == <<token, currency, context.block.height>>
        aggregated_price == ColGet(s.oracle_price_aggregated.by_id, aggreated_id)
    IN IF IsSome(aggregated_price)
       THEN delete_aggregated(
                invalidate_intervals(s, token, currency, Unwrap(aggregated_price),
                                     Len(Intervals)),
                aggreated_id)
       ELSE delete_aggregated(Ok(s), aggreated_id)

RECURSIVE invalidate_pairs(_, _, _, _)
invalidate_pairs(s, context, pairs, n) ==
    IF n = 0 THEN Ok(s)
    ELSE LET p == invalidate_pairs(s, context, pairs, n - 1) IN
         IF p.result # "Ok" THEN p
         ELSE invalidate_pair(p.services, context, pairs[n].token, pairs[n].currency)

\* the feeds are mapped from an event whose token_prices is empty
SetOracleData_invalidate(s, ev, context) ==
    LET set_oracle_data == [oracle_id |-> ev.oracle_id,
                            timestamp |-> ev.timestamp,
                            token_prices |-> <<>>]
        feeds == map_price_feeds(set_oracle_data, context)
        s1 == delete_feeds(s, feeds, Len(feeds))
    IN invalidate_pairs(s1, context, feeds, Len(feeds))

\* ------------------------------------------------------ indexer: the events
Tokens == 1..MaxToken
Currency == 1
Weightages == {0, 1, 3}
UpdateWeightages == {0, 3}
\* the price an oracle reports: 10 for the first event's oracle, 20 for the next
FeedAmount(oracle_id) == 10 * oracle_id

\* the pair lists an oracle can advertise
PriceFeedLists == {[i \in 1..n |-> [token |-> i, currency |-> Currency]] : n \in Tokens}

\* the chain the events come from: block time and median time by height
BlockTime(h) == IF h = 1 THEN 1000 ELSE IF h = 2 THEN 6000 ELSE 100000 * (h - 2)

BlockAt(h) == [height |-> h, time |-> BlockTime(h), median_time |-> BlockTime(h) - 100]

CurrentHeight == IF indexed = <<>> THEN 1 ELSE indexed[Len(indexed)].ctx.block.height

NextContext(h) == [block |-> BlockAt(h), tx |-> [txid |-> Len(indexed) + 1]]

Appointed == {e \in 1..Len(indexed) : indexed[e].kind = "AppointOracle"}

\* a panic ends the indexer; a behaviour makes MaxSteps calls
Running == ops < MaxSteps /\ (IF last.op = "init" THEN TRUE ELSE last.result # "Panic")

\* history: the buckets after an index, each new state appended to its bucket's
AbsorbedAfterIndex(old, new, x) ==
    [id \in DOMAIN new |->
        IF id \notin DOMAIN old \/ id \notin DOMAIN absorbed
        THEN <<[bucket |-> new[id], x |-> x]>>
        ELSE IF new[id] # old[id]
        THEN Append(absorbed[id], [bucket |-> new[id], x |-> x])
        ELSE absorbed[id]]

\* history: the buckets after an invalidate, the last state of a changed bucket
\* dropped and a deleted bucket forgotten
AbsorbedAfterInvalidate(old, new) ==
    [id \in (DOMAIN new) \cap (DOMAIN absorbed) |->
        IF id \in DOMAIN old /\ new[id] # old[id] /\ Len(absorbed[id]) > 0
        THEN SubSeq(absorbed[id], 1, Len(absorbed[id]) - 1)
        ELSE absorbed[id]]

IndexAppointOracle ==
    /\ Running
    /\ Len(indexed) < MaxEvents
    /\ Cardinality(Appointed) < MaxOracles
    /\ \E weightage \in Weightages, price_feeds \in PriceFeedLists,
          h \in CurrentHeight..MaxHeight :
           \E ev \in {[script |-> 0, weightage |-> weightage, price_feeds |-> price_feeds]},
              ctx \in {NextContext(h)} :
           \E r \in {AppointOracle_index(services, ev, ctx)} :
              /\ ops' = ops + 1
              /\ services' = r.services
              /\ indexed' = Append(indexed, [kind |-> "AppointOracle", ev |-> ev, ctx |-> ctx,
                                             before |-> services, after |-> r.services])
              /\ last' = [op |-> "AppointOracle.index", result |-> r.result,
                          ev |-> ev, ctx |-> ctx]
              /\ UNCHANGED <<chainVars, absorbed>>

InvalidateAppointOracle ==
    /\ Running
    /\ ops' = ops + 1
    /\ indexed # <<>>
    /\ indexed[Len(indexed)].kind = "AppointOracle"
    /\ \E e \in {indexed[Len(indexed)]} :
       \E r \in {AppointOracle_invalidate(services, e.ev, e.ctx)} :
          /\ services' = r.services
          /\ last' = [op |-> "AppointOracle.invalidate", result |-> r.result,
                      ev |-> e.ev, ctx |-> e.ctx,
                      before |-> e.before, clean |-> services = e.after]
    /\ indexed' = SubSeq(indexed, 1, Len(indexed) - 1)
    /\ UNCHANGED <<chainVars, absorbed>>

\* the event carries one price of one token, from an appointed oracle
IndexSetOracleData ==
    /\ Running
    /\ Len(indexed) < MaxEvents
    /\ \E e \in Appointed, token \in Tokens, h \in CurrentHeight..MaxHeight :
           \E amount \in {FeedAmount(indexed[e].ctx.tx.txid)} :
           \E ctx \in {NextContext(h)} :
           \E ev \in {[oracle_id |-> indexed[e].ctx.tx.txid,
                        timestamp |-> ctx.block.time,
                        token_prices |->
                            <<[token |-> token,
                               prices |-> <<[currency |-> Currency, amount |-> amount]>>]>>]} :
           \E r \in {SetOracleData_index(services, ev, ctx)} :
           \E x \in {ColGet(r.services.oracle_price_aggregated.by_id,
                             <<token, Currency, ctx.block.height>>)} :
              /\ ops' = ops + 1
              /\ services' = r.services
              /\ indexed' = Append(indexed, [kind |-> "SetOracleData", ev |-> ev, ctx |-> ctx,
                                             before |-> services, after |-> r.services])
              /\ absorbed' = AbsorbedAfterIndex(services.oracle_price_aggregated_interval.by_id,
                                                r.services.oracle_price_aggregated_interval.by_id,
                                                x)
              /\ last' = [op |-> "SetOracleData.index", result |-> r.result,
                          ev |-> ev, ctx |-> ctx]
              /\ UNCHANGED chainVars

InvalidateSetOracleData ==
    /\ Running
    /\ ops' = ops + 1
    /\ indexed # <<>>
    /\ indexed[Len(indexed)].kind = "SetOracleData"
    /\ \E e \in {indexed[Len(indexed)]} :
       \E r \in {SetOracleData_invalidate(services, e.ev, e.ctx)} :
          /\ services' = r.services
          /\ absorbed' = AbsorbedAfterInvalidate(
                             services.oracle_price_aggregated_interval.by_id,
                             r.services.oracle_price_aggregated_interval.by_id)
          /\ last' = [op |-> "SetOracleData.invalidate", result |-> r.result,
                      ev |-> e.ev, ctx |-> e.ctx,
                      before |-> e.before, clean |-> services = e.after]
    /\ indexed' = SubSeq(indexed, 1, Len(indexed) - 1)
    /\ UNCHANGED chainVars

\* invalidate_oracle_interval called with an aggregate row of the store
InvalidateOracleInterval ==
    /\ Running
    /\ \E id \in DOMAIN services.oracle_price_aggregated.by_id, i \in 1..Len(Intervals) :
           \E aggregated \in {services.oracle_price_aggregated.by_id[id]} :
           \E r \in {invalidate_oracle_interval(services, aggregated.token,
                                                 aggregated.currency, aggregated, Intervals[i])} :
              /\ ops' = ops + 1
              /\ services' = r.services
              /\ absorbed' = AbsorbedAfterInvalidate(
                                 services.oracle_price_aggregated_interval.by_id,
                                 r.services.oracle_price_aggregated_interval.by_id)
              /\ last' = [op |-> "invalidate_oracle_interval", result |-> r.result,
                          aggregated |-> aggregated, interval |-> Intervals[i]]
              /\ UNCHANGED <<chainVars, indexed>>

NextOracle ==
    \/ IndexAppointOracle
    \/ InvalidateAppointOracle
    \/ IndexSetOracleData
    \/ InvalidateSetOracleData
    \/ InvalidateOracleInterval

SpecOracle == Init /\ [][NextOracle]_vars

\* ------------------------------------------------- RemoveOracle, UpdateOracle
\* the by_id rows of the scanned oracle_history.by_key rows[1..n]; a by_key
\* row without its by_id row is an error
RECURSIVE history_rows(_, _, _)
history_rows(s, rows, n) ==
    IF n = 0 THEN [result |-> "Ok", rows |-> <<>>]
    ELSE LET before == history_rows(s, rows, n - 1)
             b == ColGet(s.oracle_history.by_id, rows[n][2])
         IN IF before.result = "Ok" /\ IsSome(b)
            THEN [result |-> "Ok", rows |-> Append(before.rows, Unwrap(b))]
            ELSE [result |-> "Err", rows |-> <<>>]

get_previous_oracle_history_list(s, oracle_id) ==
    LET rows == list(s.oracle_history.by_key, Some(<<oracle_id>>), "Descending")
    IN history_rows(s, rows, Len(rows))

\* deletes of oracle_token_currency.by_id at (token, currency, oracle_id) for
\* price_feeds[1..n]
RECURSIVE delete_token_currency_ids(_, _, _, _)
delete_token_currency_ids(s, price_feeds, oracle_id, n) ==
    IF n = 0 THEN s
    ELSE LET p == delete_token_currency_ids(s, price_feeds, oracle_id, n - 1)
             deletion_key == <<price_feeds[n].token, price_feeds[n].currency, oracle_id>>
         IN [p EXCEPT !.oracle_token_currency.by_id = ColDelete(@, deletion_key)]

\* the loop of RemoveOracle::index and of UpdateOracle::invalidate over the
\* history rows previous_oracle[1..n]: each row's pairs under the row's oracle
RECURSIVE delete_previous_rows(_, _, _)
delete_previous_rows(s, previous_oracle, n) ==
    IF n = 0 THEN s
    ELSE LET oracle_history == previous_oracle[n]
         IN delete_token_currency_ids(delete_previous_rows(s, previous_oracle, n - 1),
                                      oracle_history.price_feeds,
                                      oracle_history.oracle_id,
                                      Len(oracle_history.price_feeds))

RemoveOracle_index(s, ev, ctx) ==
    LET oracle_id == ctx.tx.txid
        s1 == [s EXCEPT !.oracle.by_id = ColDelete(@, <<oracle_id>>)]
        previous_hsitory == get_previous_oracle_history_list(s1, oracle_id)
    IN IF previous_hsitory.result = "Ok"
       THEN Ok(delete_previous_rows(s1, previous_hsitory.rows, Len(previous_hsitory.rows)))
       ELSE Err(s1)

\* the rows RemoveOracle::invalidate writes for price_feeds[1..n] of an oracle
RECURSIVE restore_token_currency(_, _, _, _, _)
restore_token_currency(s, oracle, price_feeds, context, n) ==
    IF n = 0 THEN s
    ELSE LET p == restore_token_currency(s, oracle, price_feeds, context, n - 1)
             prev_token_currency == price_feeds[n]
             oracle_token_currency ==
                 [id |-> <<prev_token_currency.token, prev_token_currency.currency,
                           oracle.id>>,
                  key |-> <<prev_token_currency.token, prev_token_currency.currency,
                            context.block.height>>,
                  token |-> prev_token_currency.token,
                  currency |-> prev_token_currency.currency,
                  oracle_id |-> context.tx.txid,
                  weightage |-> oracle.weightage,
                  block |-> oracle.block]
         IN [p EXCEPT !.oracle_token_currency.by_id =
                          ColPut(@, oracle_token_currency.id, oracle_token_currency)]

\* the loop of RemoveOracle::invalidate over previous_oracle_history[1..n]
RECURSIVE restore_previous_oracles(_, _, _, _)
restore_previous_oracles(s, previous_oracle_history, context, n) ==
    IF n = 0 THEN s
    ELSE LET p == restore_previous_oracles(s, previous_oracle_history, context, n - 1)
             previous_oracle == previous_oracle_history[n]
             oracle == [id |-> previous_oracle.oracle_id,
                        owner_address |-> previous_oracle.owner_address,
                        weightage |-> previous_oracle.weightage,
                        price_feeds |-> previous_oracle.price_feeds,
                        block |-> previous_oracle.block]
             p1 == [p EXCEPT !.oracle.by_id = ColPut(@, <<oracle.id>>, oracle)]
         IN restore_token_currency(p1, oracle, previous_oracle.price_feeds, context,
                                   Len(previous_oracle.price_feeds))

RemoveOracle_invalidate(s, ev, context) ==
    LET oracle_id == context.tx.txid
        previous_oracle_history_result == get_previous_oracle_history_list(s, oracle_id)
    IN IF previous_oracle_history_result.result = "Ok"
       THEN Ok(restore_previous_oracles(s, previous_oracle_history_result.rows, context,
                                        Len(previous_oracle_history_result.rows)))
       ELSE Err(s)

\* the inner loop of UpdateOracle::index over price_feeds[1..n] of a history
\* row: deletes under the transaction's own id and the current height
RECURSIVE delete_update_rows(_, _, _, _)
delete_update_rows(s, price_feeds, ctx, n) ==
    IF n = 0 THEN s
    ELSE LET p == delete_update_rows(s, price_feeds, ctx, n - 1)
             price_feed_item == price_feeds[n]
             deletion_id == <<price_feed_item.token, price_feed_item.currency, ctx.tx.txid>>
             deletion_key == <<price_feed_item.token, price_feed_item.currency,
                               ctx.block.height>>
         IN [p EXCEPT !.oracle_token_currency.by_id = ColDelete(@, deletion_id),
                      !.oracle_token_currency.by_key = ColDelete(@, deletion_key)]

\* the loop of UpdateOracle::index over the history rows previous_oracle[1..n]
RECURSIVE delete_update_previous(_, _, _, _)
delete_update_previous(s, previous_oracle, ctx, n) ==
    IF n = 0 THEN s
    ELSE delete_update_rows(delete_update_previous(s, previous_oracle, ctx, n - 1),
                            previous_oracle[n].price_feeds, ctx,
                            Len(previous_oracle[n].price_feeds))

UpdateOracle_index(s, ev, ctx) ==
    LET oracle_id == ctx.tx.txid
        oracle == [id |-> oracle_id,
                   owner_address |-> ev.script,
                   weightage |-> ev.weightage,
                   price_feeds |-> ev.price_feeds,
                   block |-> ctx.block]
        s1 == [s EXCEPT !.oracle.by_id = ColPut(@, <<oracle.id>>, oracle)]
        previous_oracle_history_result == get_previous_oracle_history_list(s1, oracle_id)
    IN IF previous_oracle_history_result.result # "Ok" THEN Err(s1)
       ELSE LET s2 == delete_update_previous(s1, previous_oracle_history_result.rows, ctx,
                                             Len(previous_oracle_history_result.rows))
                s3 == appoint_token_currency(s2, ev, ctx, Len(ev.price_feeds))
                oracle_history == [id |-> <<ctx.tx.txid, ctx.block.height, oracle_id>>,
                                   oracle_id |-> ctx.tx.txid,
                                   sort |-> <<ctx.block.height, ctx.tx.txid>>,
                                   owner_address |-> ev.script,
                                   weightage |-> ev.weightage,
                                   price_feeds |-> <<>>,
                                   block |-> ctx.block]
            IN Ok([s3 EXCEPT
                     !.oracle_history.by_key =
                         ColPut(@, <<oracle_history.oracle_id>>, oracle_history.id),
                     !.oracle_history.by_id =
                         ColPut(@, oracle_history.id, oracle_history)])

\* the first loop of UpdateOracle::invalidate over price_feeds[1..n]: the id is
\* built from the token twice and the event's oracle_id
RECURSIVE delete_updated_pairs(_, _, _)
delete_updated_pairs(s, ev, n) ==
    IF n = 0 THEN s
    ELSE LET p == delete_updated_pairs(s, ev, n - 1)
             pair == ev.price_feeds[n]
         IN [p EXCEPT !.oracle_token_currency.by_id =
                          ColDelete(@, <<pair.token, pair.token, ev.oracle_id>>)]

UpdateOracle_invalidate(s, ev, context) ==
    LET oracle_id == context.tx.txid
        s1 == [s EXCEPT !.oracle_history.by_key = ColDelete(@, <<oracle_id>>)]
        s2 == [s1 EXCEPT !.oracle_history.by_id =
                  ColDelete(@, <<oracle_id, context.block.height, context.tx.txid>>)]
        s3 == delete_updated_pairs(s2, ev, Len(ev.price_feeds))
        previous_oracle_history_result == get_previous_oracle_history_list(s3, oracle_id)
    IN IF previous_oracle_history_result.result = "Ok"
       THEN Ok(delete_previous_rows(s3, previous_oracle_history_result.rows,
                                    Len(previous_oracle_history_result.rows)))
       ELSE Err(s3)

\* -------------------------------------------------- the oracle's lifecycle
\* the oracles appointed and not removed, by id
Removed == {indexed[e].ev.oracle_id :
               e \in {k \in 1..Len(indexed) : indexed[k].kind = "RemoveOracle"}}
Living == {indexed[e].ctx.tx.txid : e \in Appointed} \ Removed

\* the id of an UpdateOracle or RemoveOracle transaction: a hash that sorts
\* before or after the ids of the appointments, and is not in use
UsedTxids == {indexed[e].ctx.tx.txid : e \in 1..Len(indexed)}
FreshTxids == {0, Len(indexed) + 1} \ UsedTxids

LifecycleRunning ==
    ops < MaxLifecycleSteps /\ (IF last.op = "init" THEN TRUE ELSE last.result # "Panic")

LifecycleAppointOracle == LifecycleRunning /\ IndexAppointOracle

LifecycleInvalidateAppointOracle == LifecycleRunning /\ InvalidateAppointOracle

IndexUpdateOracle ==
    /\ LifecycleRunning
    /\ Len(indexed) < MaxEvents
    /\ \E oracle_id \in Living, weightage \in UpdateWeightages,
          price_feeds \in PriceFeedLists, txid \in FreshTxids,
          h \in CurrentHeight..MaxHeight :
           \E ev \in {[oracle_id |-> oracle_id, script |-> 0, weightage |-> weightage,
                        price_feeds |-> price_feeds]},
              ctx \in {[block |-> BlockAt(h), tx |-> [txid |-> txid]]} :
           \E r \in {UpdateOracle_index(services, ev, ctx)} :
              /\ ops' = ops + 1
              /\ services' = r.services
              /\ indexed' = Append(indexed, [kind |-> "UpdateOracle", ev |-> ev, ctx |-> ctx,
                                             before |-> services, after |-> r.services])
              /\ last' = [op |-> "UpdateOracle.index", result |-> r.result,
                          ev |-> ev, ctx |-> ctx]
              /\ UNCHANGED <<chainVars, absorbed>>

InvalidateUpdateOracle ==
    /\ LifecycleRunning
    /\ ops' = ops + 1
    /\ indexed # <<>>
    /\ indexed[Len(indexed)].kind = "UpdateOracle"
    /\ \E e \in {indexed[Len(indexed)]} :
       \E r \in {UpdateOracle_invalidate(services, e.ev, e.ctx)} :
          /\ services' = r.services
          /\ last' = [op |-> "UpdateOracle.invalidate", result |-> r.result,
                      ev |-> e.ev, ctx |-> e.ctx,
                      before |-> e.before, clean |-> services = e.after]
    /\ indexed' = SubSeq(indexed, 1, Len(indexed) - 1)
    /\ UNCHANGED <<chainVars, absorbed>>

IndexRemoveOracle ==
    /\ LifecycleRunning
    /\ Len(indexed) < MaxEvents
    /\ \E oracle_id \in Living, txid \in FreshTxids, h \in CurrentHeight..MaxHeight :
           \E ev \in {[oracle_id |-> oracle_id]},
              ctx \in {[block |-> BlockAt(h), tx |-> [txid |-> txid]]} :
           \E r \in {RemoveOracle_index(services, ev, ctx)} :
              /\ ops' = ops + 1
              /\ services' = r.services
              /\ indexed' = Append(indexed, [kind |-> "RemoveOracle", ev |-> ev, ctx |-> ctx,
                                             before |-> services, after |-> r.services])
              /\ last' = [op |-> "RemoveOracle.index", result |-> r.result,
                          ev |-> ev, ctx |-> ctx]
              /\ UNCHANGED <<chainVars, absorbed>>

InvalidateRemoveOracle ==
    /\ LifecycleRunning
    /\ ops' = ops + 1
    /\ indexed # <<>>
    /\ indexed[Len(indexed)].kind = "RemoveOracle"
    /\ \E e \in {indexed[Len(indexed)]} :
       \E r \in {RemoveOracle_invalidate(services, e.ev, e.ctx)} :
          /\ services' = r.services
          /\ last' = [op |-> "RemoveOracle.invalidate", result |-> r.result,
                      ev |-> e.ev, ctx |-> e.ctx,
                      before |-> e.before, clean |-> services = e.after]
    /\ indexed' = SubSeq(indexed, 1, Len(indexed) - 1)
    /\ UNCHANGED <<chainVars, absorbed>>

NextLifecycle ==
    \/ LifecycleAppointOracle
    \/ LifecycleInvalidateAppointOracle
    \/ IndexUpdateOracle
    \/ InvalidateUpdateOracle
    \/ IndexRemoveOracle
    \/ InvalidateRemoveOracle

SpecLifecycle == Init /\ [][NextLifecycle]_vars

\* ------------------------------------------- SetOracleData with several pairs
\* the tokens one SetOracleData event prices, in the order of its token_prices
TokenLists ==
    {<<token>> : token \in Tokens}
        \cup {<<a, b>> : <<a, b>> \in {x \in Tokens \X Tokens : x[1] # x[2]}}

\* SetOracleData::index of an event with one price for each of its tokens;
\* the bucket history absorbed belongs to the single-pair events of SpecOracle
IndexSetOracleDataPairs ==
    /\ LifecycleRunning
    /\ Len(indexed) < MaxEvents
    /\ \E e \in Appointed, tokens \in TokenLists, h \in CurrentHeight..MaxHeight :
           \E amount \in {FeedAmount(indexed[e].ctx.tx.txid)} :
           \E ctx \in {NextContext(h)} :
           \E ev \in {[oracle_id |-> indexed[e].ctx.tx.txid,
                        timestamp |-> ctx.block.time,
                        token_prices |->
                            [i \in DOMAIN tokens |->
                                [token |-> tokens[i],
                                 prices |-> <<[currency |-> Currency, amount |-> amount]>>]]]} :
           \E r \in {SetOracleData_index(services, ev, ctx)} :
              /\ ops' = ops + 1
              /\ services' = r.services
              /\ indexed' = Append(indexed, [kind |-> "SetOracleData", ev |-> ev, ctx |-> ctx,
                                             before |-> services, after |-> r.services])
              /\ last' = [op |-> "SetOracleData.index", result |-> r.result,
                          ev |-> ev, ctx |-> ctx,
                          printed |-> SetOracleData_printed(services, ev, ctx)]
              /\ UNCHANGED <<chainVars, absorbed>>

NextPairs ==
    \/ LifecycleAppointOracle
    \/ IndexSetOracleDataPairs

SpecPairs == Init /\ [][NextPairs]_vars

\* ------------------------------------------------------------------ trie
\* keys are bit strings of length TrieDepth, a trie's content is a set of
\* <<key, value>> pairs with one value per key
RECURSIVE BitStrings(_)
BitStrings(n) ==
    IF n = 0 THEN {<<>>}
    ELSE {<<b>> \o s : b \in {0, 1}, s \in BitStrings(n - 1)}

TrieKeys == BitStrings(TrieDepth)
TrieValues == 1..MaxValue

Prefixes(key) == {SubSeq(key, 1, n) : n \in 0..Len(key)}

\* a node encodes what lies below it: the <<rest of key, value>> pairs
NullNode == {}

\* Hasher::hash: one hash per node encoding
KeccakHash(value) == [keccak |-> value]
hashed_null_node == KeccakHash(NullNode)

\* the node at a prefix of the trie whose root node is root, and the child of
\* a node along one bit
NodeAt(root, prefix) ==
    {<<SubSeq(e[1], Len(prefix) + 1, Len(e[1])), e[2]>> :
        e \in {x \in root : Len(prefix) <= Len(x[1])
                              /\ SubSeq(x[1], 1, Len(prefix)) = prefix}}

ChildNode(node, b) ==
    {<<Tail(e[1]), e[2]>> : e \in {x \in node : x[1] # <<>> /\ Head(x[1]) = b}}

\* sp_trie::prefixed_key
prefixed_key(key, prefix) == <<prefix, key>>

\* HashDB for TrieBackend
HashDB_get(db, key, prefix) ==
    IF key = hashed_null_node THEN Some(NullNode)
    ELSE ColGet(db, prefixed_key(key, prefix))

HashDB_emplace(db, key, prefix, value) == ColPut(db, prefixed_key(key, prefix), value)

HashDB_insert(db, prefix, value) == HashDB_emplace(db, KeccakHash(value), prefix, value)

HashDB_remove(db, key, prefix) == ColDelete(db, prefixed_key(key, prefix))

\* TrieDB::get below the node with the given hash at prefix: the value of key,
\* or an error when a node is not in the database
RECURSIVE lookup(_, _, _, _)
lookup(db, hash, prefix, key) ==
    LET node == HashDB_get(db, hash, prefix) IN
    IF node = None THEN [result |-> "Err", value |-> None]
    ELSE IF Unwrap(node) = NullNode THEN [result |-> "Ok", value |-> None]
    ELSE IF Len(prefix) = Len(key)
         THEN [result |-> "Ok", value |-> {e[2] : e \in Unwrap(node)}]
         ELSE LET b == key[Len(prefix) + 1]
              IN lookup(db, KeccakHash(ChildNode(Unwrap(node), b)), prefix \o <<b>>, key)

\* Trie::new(backend, root).get(key)
Trie_get(db, root, key) == lookup(db, root, <<>>, key)

\* TrieMut::from_existing: nothing is read yet. root is the caller's root,
\* content the trie in memory, dirty the prefixes of the nodes changed in
\* memory, death_row the stored nodes they replace, edits the calls made,
\* the ones that returned an error included
TrieMut_from_existing(root) ==
    [open |-> TRUE, root |-> root, content |-> root.keccak,
     dirty |-> {}, death_row |-> {}, edits |-> <<>>]

\* the nodes on the way to key that are not in memory are in the database
Loadable(db, tm, key) ==
    \A p \in Prefixes(key) :
        (p \notin tm.dirty /\ NodeAt(tm.content, p) # NullNode)
            => IsSome(HashDB_get(db, KeccakHash(NodeAt(tm.content, p)), p))

\* the in-memory change of the trie to new content along the path of key
Replace(tm, key, content, edit) ==
    [tm EXCEPT
        !.content = content,
        !.death_row = @ \cup {<<KeccakHash(NodeAt(tm.content, p)), p>> :
                                p \in {q \in Prefixes(key) :
                                          q \notin tm.dirty
                                          /\ NodeAt(tm.content, q) # NullNode}},
        !.dirty = @ \cup Prefixes(key),
        !.edits = Append(@, edit)]

TrieMut_insert(db, tm, key, value) ==
    LET edit == [op |-> "insert", key |-> key, value |-> value] IN
    IF ~Loadable(db, tm, key)
    THEN [trie_mut |-> [tm EXCEPT !.edits = Append(@, edit)], result |-> "Err"]
    ELSE IF <<key, value>> \in tm.content
    THEN [trie_mut |-> [tm EXCEPT !.edits = Append(@, edit)], result |-> "Ok"]
    ELSE [trie_mut |-> Replace(tm, key,
                               {e \in tm.content : e[1] # key} \cup {<<key, value>>},
                               edit),
          result |-> "Ok"]

TrieMut_remove(db, tm, key) ==
    LET edit == [op |-> "remove", key |-> key, value |-> 0] IN
    IF ~Loadable(db, tm, key)
    THEN [trie_mut |-> [tm EXCEPT !.edits = Append(@, edit)], result |-> "Err"]
    ELSE IF \A e \in tm.content : e[1] # key
    THEN [trie_mut |-> [tm EXCEPT !.edits = Append(@, edit)], result |-> "Ok"]
    ELSE [trie_mut |-> Replace(tm, key, {e \in tm.content : e[1] # key}, edit),
          result |-> "Ok"]

\* TrieDBMut::commit, first part: HashDB::remove of every node on the death row
RECURSIVE remove_death_row(_, _)
remove_death_row(db, death_row) ==
    IF death_row = {} THEN db
    ELSE LET row == CHOOSE r \in death_row : TRUE
         IN remove_death_row(HashDB_remove(db, row[1], row[2]), death_row \ {row})

\* TrieDBMut::commit, second part: HashDB::insert of every node changed in
\* memory that is left in the trie
RECURSIVE insert_nodes(_, _, _)
insert_nodes(db, content, dirty) ==
    IF dirty = {} THEN db
    ELSE LET p == CHOOSE q \in dirty : TRUE
             rest == insert_nodes(db, content, dirty \ {p})
         IN IF NodeAt(content, p) = NullNode THEN rest
            ELSE HashDB_insert(rest, p, NodeAt(content, p))

\* TrieDBMut::commit, as TrieMut::root and the drop of a TrieMut run it: one
\* HashDB::remove, a write of its own, per node of the death row, then one
\* HashDB::insert, a write of its own, per node left in memory; the root is
\* the hash TrieBackend::insert returns for the root node
commit(db, tm) ==
    [db |-> insert_nodes(remove_death_row(db, tm.death_row), tm.content, tm.dirty),
     trie_mut |-> [tm EXCEPT !.root = KeccakHash(tm.content),
                             !.dirty = {}, !.death_row = {}, !.edits = <<>>],
     root |-> KeccakHash(tm.content)]

TrieRunning == ops < MaxTrieSteps

\* the roots a caller can hold: the empty trie's and the committed ones
KnownRoots == {hashed_null_node} \cup {commits[i].root : i \in DOMAIN commits}

OpenTrieMut ==
    /\ TrieRunning
    /\ ~trie_mut.open
    /\ \E root \in KnownRoots :
          /\ trie_mut' = TrieMut_from_existing(root)
          /\ last' = [op |-> "TrieMut.from_existing", result |-> "Ok", root |-> root]
    /\ ops' = ops + 1
    /\ UNCHANGED <<store, evmVars, undo, oracleVars, kvdb, commits, bloomVars, concVars>>

InsertTrieMut ==
    /\ TrieRunning
    /\ trie_mut.open
    /\ Len(trie_mut.edits) < MaxEdits
    /\ \E key \in TrieKeys, value \in TrieValues :
       \E r \in {TrieMut_insert(kvdb, trie_mut, key, value)} :
          /\ trie_mut' = r.trie_mut
          /\ last' = [op |-> "TrieMut.insert", result |-> r.result,
                      key |-> key, value |-> value]
    /\ ops' = ops + 1
    /\ UNCHANGED <<store, evmVars, undo, oracleVars, kvdb, commits, bloomVars, concVars>>

RemoveTrieMut ==
    /\ TrieRunning
    /\ trie_mut.open
    /\ Len(trie_mut.edits) < MaxEdits
    /\ \E key \in TrieKeys :
       \E r \in {TrieMut_remove(kvdb, trie_mut, key)} :
          /\ trie_mut' = r.trie_mut
          /\ last' = [op |-> "TrieMut.remove", result |-> r.result, key |-> key]
    /\ ops' = ops + 1
    /\ UNCHANGED <<store, evmVars, undo, oracleVars, kvdb, commits, bloomVars, concVars>>

\* TrieMut::root: commits, the TrieMut stays open on the new root
RootTrieMut ==
    /\ TrieRunning
    /\ trie_mut.open
    /\ \E r \in {commit(kvdb, trie_mut)} :
          /\ kvdb' = r.db
          /\ trie_mut' = r.trie_mut
          /\ commits' = Append(commits, [base |-> trie_mut.root, edits |-> trie_mut.edits,
                                          root |-> r.root])
          /\ last' = [op |-> "TrieMut.root", result |-> "Ok", root |-> r.root,
                      base |-> trie_mut.root, edits |-> trie_mut.edits]
    /\ ops' = ops + 1
    /\ UNCHANGED <<store, evmVars, undo, oracleVars, bloomVars, concVars>>

\* the TrieMut goes out of scope: TrieDBMut's Drop commits
DropTrieMut ==
    /\ TrieRunning
    /\ trie_mut.open
    /\ \E r \in {commit(kvdb, trie_mut)} :
          /\ kvdb' = r.db
          /\ commits' = Append(commits, [base |-> trie_mut.root, edits |-> trie_mut.edits,
                                          root |-> r.root])
          /\ last' = [op |-> "TrieMut.drop", result |-> "Ok", root |-> r.root,
                      base |-> trie_mut.root, edits |-> trie_mut.edits]
    /\ trie_mut' = NoTrieMut
    /\ ops' = ops + 1
    /\ UNCHANGED <<store, evmVars, undo, oracleVars, bloomVars, concVars>>

NextTrie ==
    \/ OpenTrieMut
    \/ InsertTrieMut
    \/ RemoveTrieMut
    \/ RootTrieMut
    \/ DropTrieMut

SpecTrie == Init /\ [][NextTrie]_vars

\* ------------------------------------------------------------ logs bloom
\* A Bloom is the set of its bits that are 1. A log is an address and its
\* topics; BloomInput::Raw takes the bytes of either, 20 for an address and 32
\* for a topic, written <<length, value>>.
Topics == 1..MaxTopic
TopicLists == UNION {[1..n -> Topics] : n \in 0..MaxTopic}
Logs == [address : Addresses, topics : TopicLists]
LogLists == UNION {[1..n -> Logs] : n \in 0..MaxLogs}

RawAddress(address) == <<20, address>>
RawTopic(topic) == <<32, topic>>

\* the three bits Bloom::accrue takes from the hash of the input
BloomBits(raw) ==
    {(raw[1] + raw[2] * (2 * i + 1) + i * i) % BloomBitCount : i \in 0..2}

\* a replacement of the bloom by the bits of the input
accrue_replace(bloom, raw) == BloomBits(raw)

\* Bloom::accrue: ORs the bits of the input into the bloom
accrue(bloom, raw) == bloom \cup BloomBits(raw)

\* Bloom::contains_input: the membership test
contains_input(bloom, raw) == BloomBits(raw) \subseteq bloom

\* the bloom after the topics topics[n..] of a log
RECURSIVE accrue_topics(_, _, _)
accrue_topics(bloom, topics, n) ==
    IF n > Len(topics) THEN bloom
    ELSE accrue_topics(accrue(bloom, RawTopic(topics[n])), topics, n + 1)

\* EVMHandler::logs_bloom over logs[n..]
RECURSIVE logs_bloom_from(_, _, _)
logs_bloom_from(logs, bloom, n) ==
    IF n > Len(logs) THEN bloom
    ELSE logs_bloom_from(logs,
            accrue_topics(accrue(bloom, RawAddress(logs[n].address)), logs[n].topics, 1),
            n + 1)

logs_bloom(logs, bloom) == logs_bloom_from(logs, bloom, 1)

\* Bloom::accrue_bloom: the OR of two blooms
accrue_bloom(bloom, other) == bloom \cup other

\* the logs of one more receipt of the block: logs_bloom on an empty Bloom for
\* the receipt and on the block's Bloom for the block
LogsBloom ==
    /\ Len(receipt_blooms) < MaxReceipts
    /\ \E logs \in LogLists :
          /\ block_bloom' = logs_bloom(logs, block_bloom)
          /\ receipt_blooms' = Append(receipt_blooms,
                                      [logs |-> logs, bloom |-> logs_bloom(logs, {})])
          /\ last' = [op |-> "logs_bloom", result |-> "Ok", logs |-> logs]
    /\ UNCHANGED <<store, evmVars, undo, ops, oracleVars, trieVars, concVars>>

\* the next block starts from an empty Bloom
NextBlockBloom ==
    /\ receipt_blooms # <<>>
    /\ block_bloom' = {}
    /\ receipt_blooms' = <<>>
    /\ last' = [op |-> "Bloom.default", result |-> "Ok"]
    /\ UNCHANGED <<store, evmVars, undo, ops, oracleVars, trieVars, concVars>>

NextBloom ==
    \/ LogsBloom
    \/ NextBlockBloom

SpecBloom == Init /\ [][NextBloom]_vars

\* ==================================================================== claims
\* Blocks 1..n are persisted and block n is the latest: every block is stored
\* under its number and hash with its transactions and receipts, each block's
\* parent is the block before it.
ChainPersisted(s, n) ==
    /\ ColGet(s.latest_block_number, LatestKey("")) = Some(n)
    /\ \A i \in 1..n :
        /\ IsSome(get_block_by_number(s, i))
        /\ LET b == Unwrap(get_block_by_number(s, i)) IN
            /\ b.header.number = i
            /\ get_block_by_hash(s, HeaderHash(b.header)) = Some(b)
            /\ \A j \in 1..Len(b.transactions) :
                  /\ get_transaction_by_hash(s, TxHash(b.transactions[j]))
                        = Some(b.transactions[j])
                  /\ IsSome(get_receipt(s, TxHash(b.transactions[j])))
            /\ i > 1 => b.header.parent_hash
                          = HeaderHash(Unwrap(get_block_by_number(s, i - 1)).header)

\* every artifact block b had in store s is absent from store t
ArtifactsAbsent(s, t, n) ==
    LET b == Unwrap(get_block_by_number(s, n)) IN
    /\ get_block_by_number(t, n) = None
    /\ \A j \in 1..Len(b.transactions) :
          /\ get_transaction_by_hash(t, TxHash(b.transactions[j])) = None
          /\ get_receipt(t, TxHash(b.transactions[j])) = None
    /\ get_logs(t, n) = None
    /\ ColGet(t.block_map, HeaderHash(b.header)) = None

\* every artifact block i had in store s is in store t as it was
ArtifactsKept(s, t, i) ==
    LET b == Unwrap(get_block_by_number(s, i)) IN
    /\ get_block_by_number(t, i) = Some(b)
    /\ get_block_by_hash(t, HeaderHash(b.header)) = Some(b)
    /\ \A j \in 1..Len(b.transactions) :
          /\ get_transaction_by_hash(t, TxHash(b.transactions[j]))
                = Some(b.transactions[j])
          /\ IsSome(get_receipt(t, TxHash(b.transactions[j])))
          /\ get_receipt(t, TxHash(b.transactions[j]))
                = get_receipt(s, TxHash(b.transactions[j]))
    /\ get_logs(t, i) = get_logs(s, i)
    /\ ColGet(t.block_code_hashes, i) = ColGet(s.block_code_hashes, i)
    /\ IsSome(ColGet(s.block_code_hashes, i)) =>
          \A h \in Unwrap(ColGet(s.block_code_hashes, i)) :
              get_code_by_hash(t, h) = get_code_by_hash(s, h)

\* C1: with blocks 1..n persisted and n the latest, one disconnect_latest_block
\* leaves blocks[n], the transactions and receipts of block n,
\* address_logs_map[n] and block_map[hash(block n)] absent, and every artifact
\* of blocks 1..n-1 as before: the block, its block_map entry, transactions,
\* receipts, logs, its block_code_hashes entry and the code stored under each
\* of those hashes.
C1_DisconnectRemovesTip ==
    [][last'.op = "disconnect_latest_block" =>
        \A n \in Numbers :
            ChainPersisted(store, n) =>
                /\ ArtifactsAbsent(store, store', n)
                /\ \A i \in 1..(n - 1) : ArtifactsKept(store, store', i)]_vars

\* C2: persisting n blocks and then disconnecting n times returns every
\* column to its contents before the first of the n blocks (stated for each
\* disconnect against the contents before the block it removes).
C2_ReorgReversible ==
    (last.op = "disconnect_latest_block" /\ IsSome(last.expect))
        => store = Unwrap(last.expect)

\* C3: a code hash stored by put_code for an earlier block that is still
\* connected stays retrievable after the later block is disconnected.
C3_EarlierCodeKept ==
    (last.op = "disconnect_latest_block" /\ IsSome(last.block)) =>
        \A m \in DOMAIN store.block_code_hashes :
            (m < Unwrap(last.block).header.number /\ IsSome(get_block_by_number(store, m)))
                => \A h \in store.block_code_hashes[m] : IsSome(get_code_by_hash(store, h))

\* C4: after disconnect_latest_block of block b, get_latest_block is b's parent
\* when the parent is stored, and in every case the latest pointer is not
\* b's number any more.
C4_LatestMovesToParent ==
    (last.op = "disconnect_latest_block" /\ IsSome(last.block)) =>
        LET b == Unwrap(last.block)
            parent == get_block_by_hash(store, b.header.parent_hash)
        IN /\ IsSome(parent) => get_latest_block(store) = parent
           /\ ColGet(store.latest_block_number, LatestKey("")) # Some(b.header.number)

\* on-chain balance and nonce of an address at the latest block
OnChainBalance(a) == get_balance(store, trie, a, LatestNumber(store)).value
OnChainNonce(a) == get_nonce(store, trie, a, LatestNumber(store)).value

\* the balance of address a after the first n entries of a queue are applied
\* to the on-chain balance in order
RECURSIVE BalanceAfter(_, _, _)
BalanceAfter(queue, a, n) ==
    IF n = 0 THEN OnChainBalance(a)
    ELSE IF queue[n].tx.address = a /\ queue[n].tx.kind = "EvmIn"
    THEN BalanceAfter(queue, a, n - 1) + queue[n].tx.amount
    ELSE IF queue[n].tx.address = a /\ queue[n].tx.kind = "EvmOut"
    THEN BalanceAfter(queue, a, n - 1) - queue[n].tx.amount
    ELSE BalanceAfter(queue, a, n - 1)

C5_WitnessRefused ==
    /\ last.op = "sub_balance"
    /\ ~last.ok
    /\ last.err.kind = "QueueError"
    /\ last.context \in DOMAIN tx_queues
    /\ Len(tx_queues[last.context]) = 1
    /\ tx_queues[last.context][1].tx = EvmOut(last.address, last.amount)
    /\ tx_queues[last.context][1].hash # last.hash
    /\ OnChainBalance(last.address) >= last.amount

\* the nonces of the signed transactions of a sender in a queue, in order
SenderNonces(queue, sender) ==
    LET own == SelectSeq(queue, LAMBDA e : e.tx.kind = "SignedTx" /\ e.tx.address = sender)
    IN [i \in DOMAIN own |-> own[i].tx.nonce]

C7_InsufficientBalance ==
    [][(last'.op = "sub_balance" /\ OnChainBalance(last'.address) < last'.amount) =>
        /\ ~last'.ok
        /\ last'.err = [kind |-> "InsufficientBalance", address |-> last'.address,
                        account_balance |-> OnChainBalance(last'.address),
                        amount |-> last'.amount]
        /\ tx_queues' = tx_queues]_vars

\* sub_balance was refused for insufficient balance while another context
\* holds an entry
C7_Witness ==
    /\ last.op = "sub_balance"
    /\ ~last.ok
    /\ last.err.kind = "InsufficientBalance"
    /\ last.context \in DOMAIN tx_queues
    /\ \E c \in DOMAIN tx_queues : c # last.context /\ Len(tx_queues[c]) > 0

\* addresses an account can live at: the callers, and what they create
AllAddresses == 0..(2 * MaxAddr + 1)

C9_PutBlockThenGet ==
    (last.op = "put_block" /\ last.ok) =>
        LET b == Unwrap(last.block)
            n == Len(b.transactions)
        IN /\ get_block_by_number(store, b.header.number) = Some(b)
           /\ get_block_by_hash(store, HeaderHash(b.header)) = Some(b)
           /\ \A i \in 1..n :
                 /\ get_transaction_by_hash(store, TxHash(b.transactions[i]))
                       = Some(b.transactions[i])
                 /\ get_transaction_by_block_hash_and_index(
                        store, HeaderHash(b.header), i - 1) = Some(b.transactions[i])
           /\ get_transaction_by_block_hash_and_index(store, HeaderHash(b.header), n)
                 = None

\* a block with two transactions was put over a block of the same number
C9_Witness ==
    /\ last.op = "put_block"
    /\ last.ok
    /\ Len(Unwrap(last.block).transactions) = 2
    /\ Cardinality(DOMAIN store.block_map) >= 2
    /\ Cardinality(DOMAIN store.blocks) = 1

\* C10: a put_block that returns an error leaves the transactions, blocks and
\* block_map columns as they were before the call.
C10_PutBlockAtomic ==
    [][(last'.op = "put_block" /\ ~last'.ok) =>
        /\ store'.transactions = store.transactions
        /\ store'.blocks = store.blocks
        /\ store'.block_map = store.block_map]_vars

\* ---------------------------------------------------- oracle claims: the log
\* what the events indexed and not invalidated say, read from the log alone

\* the oracles registered for the pair: appointed with it among their feeds
Registered(token, currency) ==
    {e \in Appointed :
        \E i \in DOMAIN indexed[e].ev.price_feeds :
            indexed[e].ev.price_feeds[i] = [token |-> token, currency |-> currency]}

OracleId(e) == indexed[e].ctx.tx.txid
OracleWeightage(e) == indexed[e].ev.weightage

\* the SetOracleData events of oracle e that price the pair
FeedEvents(e, token, currency) ==
    {k \in 1..Len(indexed) :
        /\ indexed[k].kind = "SetOracleData"
        /\ indexed[k].ev.oracle_id = OracleId(e)
        /\ \E i \in DOMAIN indexed[k].ev.token_prices :
              /\ indexed[k].ev.token_prices[i].token = token
              /\ \E j \in DOMAIN indexed[k].ev.token_prices[i].prices :
                    indexed[k].ev.token_prices[i].prices[j].currency = currency}

LatestFeedEvent(e, token, currency) ==
    CHOOSE k \in FeedEvents(e, token, currency) :
        \A m \in FeedEvents(e, token, currency) : m <= k

LatestFeedAmount(e, token, currency) ==
    LET ev == indexed[LatestFeedEvent(e, token, currency)].ev
        tp == CHOOSE i \in DOMAIN ev.token_prices : ev.token_prices[i].token = token
        pr == CHOOSE j \in DOMAIN ev.token_prices[tp].prices :
                  ev.token_prices[tp].prices[j].currency = currency
    IN ev.token_prices[tp].prices[pr].amount

LatestFeedTime(e, token, currency) ==
    indexed[LatestFeedEvent(e, token, currency)].ev.timestamp

\* the qualifying oracles of the pair at block time now
Qualifying(token, currency, now) ==
    {e \in Registered(token, currency) :
        /\ OracleWeightage(e) > 0
        /\ FeedEvents(e, token, currency) # {}
        /\ now - LatestFeedTime(e, token, currency) <= FreshSeconds
        /\ LatestFeedTime(e, token, currency) - now <= FreshSeconds}

RECURSIVE SumOver(_, _)
SumOver(f, S) ==
    IF S = {} THEN 0
    ELSE LET x == CHOOSE y \in S : TRUE IN f[x] + SumOver(f, S \ {x})

\* the pair a SetOracleData event of the model touches, and its aggregate row
TouchedToken(ev) == ev.token_prices[1].token

AggregateRow(token, currency, height) ==
    ColGet(services.oracle_price_aggregated.by_id, <<token, currency, height>>)

\* C11: after SetOracleData.index at block B for a pair with qualifying
\* oracles, the aggregate row at (token, currency, B.height) has
\* amount = sum(w_i * a_i) / sum(w_i), up to the fixed-point precision, and
\* weightage = sum(w_i) over exactly the qualifying oracles of the pair, a_i
\* being oracle i's most recent amount.
C11_WeightedAggregate ==
    (last.op = "SetOracleData.index" /\ last.result = "Ok") =>
        LET token == TouchedToken(last.ev)
            Q == Qualifying(token, Currency, last.ctx.block.time)
            w == [e \in Q |-> OracleWeightage(e)]
            wa == [e \in Q |-> OracleWeightage(e) * LatestFeedAmount(e, token, Currency)]
            row == AggregateRow(token, Currency, last.ctx.block.height)
        IN Q # {} =>
              /\ IsSome(row)
              /\ DecNear(Unwrap(row).aggregated.amount,
                         DecDiv(DecFrom(SumOver(wa, Q)), DecFrom(SumOver(w, Q))))
              /\ Unwrap(row).aggregated.weightage = SumOver(w, Q)

\* the oracle ids SetOracleData::index lists for the pair in the current store
Listed(token, currency) ==
    LET entries == oracle_entries(services, token, currency)
    IN {entries[i].oracle_id : i \in DOMAIN entries}

\* C12: the active oracles SetOracleData.index counts and sums are exactly
\* the registered oracles of the pair with weightage > 0 whose most recent
\* feed is within 3600 seconds of the block time: an older feed adds nothing
\* to the active count or the weightage, and a zero-weight oracle is never
\* active. Stated for the indexes that list every registered oracle.
C12_QualifyingSet ==
    (last.op = "SetOracleData.index" /\ last.result = "Ok") =>
        LET token == TouchedToken(last.ev)
            R == Registered(token, Currency)
            Q == Qualifying(token, Currency, last.ctx.block.time)
            w == [e \in Q |-> OracleWeightage(e)]
            row == AggregateRow(token, Currency, last.ctx.block.height)
        IN (IsSome(row) /\ Listed(token, Currency) = {OracleId(e) : e \in R}) =>
              /\ Unwrap(row).aggregated.oracles.active = Cardinality(Q)
              /\ Unwrap(row).aggregated.weightage = SumOver(w, Q)

\* C13: the total stored in the aggregate of a pair is the number of oracles
\* registered for the pair, whatever the heights of their appointments: two
\* oracles appointed for the pair in one block give total 2.
C13_TotalCount ==
    (last.op = "SetOracleData.index" /\ last.result = "Ok") =>
        LET token == TouchedToken(last.ev)
            row == AggregateRow(token, Currency, last.ctx.block.height)
        IN IsSome(row) =>
              Unwrap(row).aggregated.oracles.total
                  = Cardinality(Registered(token, Currency))

\* the ids of the buckets of (token, currency, interval) in a by_id column
BucketsOf(col, token, currency, interval) ==
    {id \in DOMAIN col : id[1] = token /\ id[2] = currency /\ id[3] = interval}

\* the most recently opened of a non-empty set of bucket ids
MostRecent(ids) == CHOOSE id \in ids : \A other \in ids : other[4] <= id[4]

\* C14: for each interval of 900, 3600 and 86400 seconds, indexing an
\* aggregate at block B opens a new bucket with count 1 and the aggregate's
\* values when (token, currency, interval) has no bucket or B.median_time is
\* more than the interval after the opening block's; otherwise the existing
\* bucket absorbs it: its count grows by exactly 1, its opening block stays.
C14_BucketRule ==
    [][(/\ last'.op = "SetOracleData.index"
        /\ last'.result = "Ok"
        /\ Listed(TouchedToken(last'.ev), Currency) # {}) =>
        LET token == TouchedToken(last'.ev)
            block == last'.ctx.block
            x == Unwrap(ColGet(services'.oracle_price_aggregated.by_id,
                               <<token, Currency, block.height>>)).aggregated
            old == services.oracle_price_aggregated_interval.by_id
            new == services'.oracle_price_aggregated_interval.by_id
        IN \A i \in DOMAIN Intervals :
              LET ids == BucketsOf(old, token, Currency, Intervals[i])
                  opened == <<token, Currency, Intervals[i], block.height>>
              IN IF ids = {} THEN
                     /\ BucketsOf(new, token, Currency, Intervals[i]) = {opened}
                     /\ new[opened].aggregated =
                            [amount |-> x.amount, weightage |-> x.weightage,
                             count |-> 1, oracles |-> x.oracles]
                     /\ new[opened].block = block
                 ELSE IF block.median_time - old[MostRecent(ids)].block.median_time
                             > Intervals[i] THEN
                     /\ BucketsOf(new, token, Currency, Intervals[i])
                            = ids \cup {opened}
                     /\ new[opened].aggregated =
                            [amount |-> x.amount, weightage |-> x.weightage,
                             count |-> 1, oracles |-> x.oracles]
                     /\ new[opened].block = block
                 ELSE
                     /\ BucketsOf(new, token, Currency, Intervals[i]) = ids
                     /\ new[MostRecent(ids)].aggregated.count
                            = old[MostRecent(ids)].aggregated.count + 1
                     /\ new[MostRecent(ids)].block = old[MostRecent(ids)].block]_vars

\* (m * n + x) / (n + 1) over the decimals and over the integers
MeanWith(m, n, x) == DecDiv(DecAdd(DecMul(m, DecFrom(n)), x), DecFrom(n + 1))
MeanWithNumber(m, n, x) == (m * n + x) \div (n + 1)

\* the sum of the amounts of the aggregates a bucket absorbed
RECURSIVE AbsorbedAmount(_, _)
AbsorbedAmount(history, n) ==
    IF n = 0 THEN DecFrom(0)
    ELSE DecAdd(AbsorbedAmount(history, n - 1),
                Unwrap(history[n].x).aggregated.amount)

\* C15: when an aggregate x is folded into a bucket holding mean m over n
\* aggregates, amount, weightage, oracles.active and oracles.total each become
\* (m * n + x) / (n + 1) and the count n + 1, so the bucket's amount is the
\* arithmetic mean of the aggregates it absorbed.
C15_ForwardMean ==
    [][(/\ last'.op = "SetOracleData.index"
        /\ last'.result = "Ok"
        /\ Listed(TouchedToken(last'.ev), Currency) # {}) =>
        LET token == TouchedToken(last'.ev)
            block == last'.ctx.block
            x == Unwrap(ColGet(services'.oracle_price_aggregated.by_id,
                               <<token, Currency, block.height>>)).aggregated
            old == services.oracle_price_aggregated_interval.by_id
            new == services'.oracle_price_aggregated_interval.by_id
        IN \A i \in DOMAIN Intervals :
              LET ids == BucketsOf(old, token, Currency, Intervals[i]) IN
              (/\ ids # {}
               /\ MostRecent(ids) \in DOMAIN new
               /\ new[MostRecent(ids)] # old[MostRecent(ids)]) =>
                  LET b == MostRecent(ids)
                      m == old[b].aggregated
                      n == m.count
                  IN /\ new[b].aggregated.count = n + 1
                     /\ DecNear(new[b].aggregated.amount, MeanWith(m.amount, n, x.amount))
                     /\ new[b].aggregated.weightage
                            = MeanWithNumber(m.weightage, n, x.weightage)
                     /\ new[b].aggregated.oracles.active
                            = MeanWithNumber(m.oracles.active, n, x.oracles.active)
                     /\ new[b].aggregated.oracles.total
                            = MeanWithNumber(m.oracles.total, n, x.oracles.total)
                     /\ b \in DOMAIN absorbed'
                     /\ Len(absorbed'[b]) = n + 1
                     /\ DecNear(new[b].aggregated.amount,
                                DecDiv(AbsorbedAmount(absorbed'[b], n + 1),
                                       DecFrom(n + 1)))]_vars

\* (m * n - x) / (n - 1) over the decimals and over the integers, for n >= 2
MeanWithout(m, n, x) == DecDiv(DecSub(DecMul(m, DecFrom(n)), x), DecFrom(n - 1))
MeanWithoutNumber(m, n, x) == (m * n - x) \div (n - 1)

\* C16: invalidating an aggregate deletes a bucket whose count is 1 entirely
\* and keeps a bucket whose count is 2 or more; after the delete of a count-1
\* bucket the bucket opened before it for the same (token, currency, interval)
\* is unchanged and is the one the next scan finds as most recent.
C16_InvalidateBucket ==
    [][last'.op = "invalidate_oracle_interval" =>
        LET token == last'.aggregated.token
            currency == last'.aggregated.currency
            interval == last'.interval
            old == services.oracle_price_aggregated_interval.by_id
            new == services'.oracle_price_aggregated_interval.by_id
            ids == BucketsOf(old, token, currency, interval)
        IN ids # {} =>
              LET b == MostRecent(ids) IN
              IF old[b].aggregated.count = 1
              THEN /\ b \notin DOMAIN new
                   /\ \A id \in ids \ {b} : id \in DOMAIN new /\ new[id] = old[id]
                   /\ LET found == first_interval(services', token, currency,
                                                  interval, "Descending")
                      IN /\ found.result = "Ok"
                         /\ IF ids = {b}
                            THEN \A i \in DOMAIN found.rows : found.rows[i].id \notin ids
                            ELSE found.rows = <<old[MostRecent(ids \ {b})]>>
              ELSE b \in DOMAIN new]_vars

\* C17: invalidating an aggregate x from a bucket holding mean m over n >= 2
\* aggregates sets amount, weightage, oracles.active and oracles.total to
\* (m * n - x) / (n - 1) and the count to n - 1; no invalidation divides by
\* zero and no bucket is left with a count below 1.
C17_BackwardMean ==
    [][last'.op = "invalidate_oracle_interval" =>
        LET token == last'.aggregated.token
            currency == last'.aggregated.currency
            interval == last'.interval
            x == last'.aggregated.aggregated
            old == services.oracle_price_aggregated_interval.by_id
            new == services'.oracle_price_aggregated_interval.by_id
            ids == BucketsOf(old, token, currency, interval)
        IN /\ \A id \in DOMAIN new : new[id].aggregated.count >= 1
           /\ ids # {} =>
                 LET b == MostRecent(ids)
                     m == old[b].aggregated
                     n == m.count
                 IN IF n = 1 THEN last'.result # "Panic"
                    ELSE /\ last'.result = "Ok"
                         /\ b \in DOMAIN new
                         /\ new[b].aggregated.count = n - 1
                         /\ DecNear(new[b].aggregated.amount,
                                    MeanWithout(m.amount, n, x.amount))
                         /\ new[b].aggregated.weightage
                                = MeanWithoutNumber(m.weightage, n, x.weightage)
                         /\ new[b].aggregated.oracles.active
                                = MeanWithoutNumber(m.oracles.active, n, x.oracles.active)
                         /\ new[b].aggregated.oracles.total
                                = MeanWithoutNumber(m.oracles.total, n, x.oracles.total)]_vars

\* the buckets whose last absorbed aggregate is x, n >= 1 aggregates absorbed
AbsorbedLast(x, n) ==
    {b \in DOMAIN absorbed :
        /\ b \in DOMAIN services.oracle_price_aggregated_interval.by_id
        /\ Len(absorbed[b]) >= n
        /\ Len(absorbed[b]) = services.oracle_price_aggregated_interval.by_id[b].aggregated.count
        /\ absorbed[b][Len(absorbed[b])].x = Some(x)
        /\ absorbed[b][Len(absorbed[b])].bucket
              = services.oracle_price_aggregated_interval.by_id[b]}

\* the averaged fields of two buckets are the same, the amount up to the
\* fixed-point precision
SameAggregated(a, b) ==
    /\ a.count = b.count
    /\ DecNear(a.amount, b.amount)
    /\ a.weightage = b.weightage
    /\ a.oracles = b.oracles

\* C18: a bucket that absorbed aggregates x_1..x_n, n >= 2, has after the
\* invalidation of x_n the count, amount, weightage and oracle counts it had
\* after absorbing x_1..x_(n-1), the amount up to the fixed-point precision.
C18_ForwardBackwardInverse ==
    [][last'.op = "invalidate_oracle_interval" =>
        LET new == services'.oracle_price_aggregated_interval.by_id IN
        \A b \in AbsorbedLast(last'.aggregated, 2) :
            (/\ b[1] = last'.aggregated.token
             /\ b[2] = last'.aggregated.currency
             /\ b[3] = last'.interval
             /\ b = MostRecent(BucketsOf(services.oracle_price_aggregated_interval.by_id,
                                         b[1], b[2], b[3]))) =>
                /\ b \in DOMAIN new
                /\ SameAggregated(new[b].aggregated,
                                  absorbed[b][Len(absorbed[b]) - 1].bucket.aggregated)]_vars

\* C19: SetOracleData.invalidate reverses SetOracleData.index of the same
\* event and block: the feed rows the event wrote are absent from by_id and
\* by_key, the aggregate row at (token, currency, height) of each touched pair
\* is absent, and each bucket that absorbed the aggregate has had it removed.
C19_SetOracleDataReversible ==
    [][(last'.op = "SetOracleData.invalidate" /\ last'.clean) =>
        LET feeds == map_price_feeds(last'.ev, last'.ctx)
            token == TouchedToken(last'.ev)
            id == <<token, Currency, last'.ctx.block.height>>
            x == ColGet(services.oracle_price_aggregated.by_id, id)
            new == services'.oracle_price_aggregated_interval.by_id
        IN /\ \A i \in DOMAIN feeds :
                 /\ ColGet(services'.oracle_price_feed.by_id, feeds[i].id) = None
                 /\ ColGet(services'.oracle_price_feed.by_key, feeds[i].key)
                       # Some(feeds[i].id)
           /\ ColGet(services'.oracle_price_aggregated.by_id, id) = None
           /\ IsSome(x) =>
                 \A b \in AbsorbedLast(Unwrap(x), 1) :
                     IF Len(absorbed[b]) = 1 THEN b \notin DOMAIN new
                     ELSE /\ b \in DOMAIN new
                          /\ SameAggregated(
                                 new[b].aggregated,
                                 absorbed[b][Len(absorbed[b]) - 1].bucket.aggregated)]_vars

\* C20: AppointOracle.index followed by AppointOracle.invalidate with the same
\* context leaves the oracle, oracle_history and oracle_token_currency stores,
\* by_id and by_key, with exactly their contents before the index.
C20_AppointOracleReversible ==
    (last.op = "AppointOracle.invalidate" /\ last.clean) =>
        /\ services.oracle = last.before.oracle
        /\ services.oracle_history = last.before.oracle_history
        /\ services.oracle_token_currency = last.before.oracle_token_currency

\* ------------------------------------------------ oracle lifecycle claims
\* the pairs of the oracle_token_currency.by_id rows stored under an oracle
RowsOf(s, oracle_id) ==
    {<<id[1], id[2]>> : id \in {k \in DOMAIN s.oracle_token_currency.by_id :
                                    k[3] = oracle_id}}

\* the oracle_history.by_id rows of an oracle
HistoryOf(s, oracle_id) ==
    {id \in DOMAIN s.oracle_history.by_id :
        s.oracle_history.by_id[id].oracle_id = oracle_id}

PairsOf(price_feeds) ==
    {<<price_feeds[i].token, price_feeds[i].currency>> : i \in DOMAIN price_feeds}

\* C21: after UpdateOracle is indexed for an existing oracle O with pair set
\* P, the oracle_token_currency rows of O are exactly P (the rows of its
\* previous pairs outside P are deleted, every pair of P has a row) and O has
\* one more oracle_history entry; also after Appoint, Update, Update, ...
C21_UpdateRegistersExactly ==
    [][(last'.op = "UpdateOracle.index" /\ last'.result = "Ok") =>
        LET O == last'.ev.oracle_id IN
        /\ RowsOf(services', O) = PairsOf(last'.ev.price_feeds)
        /\ Cardinality(HistoryOf(services', O))
              = Cardinality(HistoryOf(services, O)) + 1]_vars

\* what a store holds of one oracle: its record, its history rows and its
\* oracle_token_currency rows, by_id and by_key
OracleState(s, oracle_id) ==
    [oracle |-> ColGet(s.oracle.by_id, <<oracle_id>>),
     history |-> [id \in HistoryOf(s, oracle_id) |-> s.oracle_history.by_id[id]],
     history_key |-> ColGet(s.oracle_history.by_key, <<oracle_id>>),
     rows |-> [id \in {k \in DOMAIN s.oracle_token_currency.by_id : k[3] = oracle_id}
                 |-> s.oracle_token_currency.by_id[id]],
     keys |-> {k \in DOMAIN s.oracle_token_currency.by_key :
                  s.oracle_token_currency.by_key[k][3] = oracle_id}]

\* C22: UpdateOracle.index followed by UpdateOracle.invalidate with the same
\* context leaves the oracle's record, its oracle_history and its
\* oracle_token_currency rows as before the update: the previous pairs are
\* registered, the rows and the history entry the update wrote are gone.
C22_UpdateOracleReversible ==
    [][(last'.op = "UpdateOracle.invalidate" /\ last'.clean) =>
        LET O == last'.ev.oracle_id
            before == last'.before
        IN /\ OracleState(services', O) = OracleState(before, O)
           /\ \A id \in DOMAIN services.oracle_token_currency.by_id :
                 id \notin DOMAIN before.oracle_token_currency.by_id
                    => id \notin DOMAIN services'.oracle_token_currency.by_id
           /\ \A id \in DOMAIN services.oracle_history.by_id :
                 id \notin DOMAIN before.oracle_history.by_id
                    => id \notin DOMAIN services'.oracle_history.by_id]_vars

\* C23: after RemoveOracle is indexed for oracle O, O's record is absent, no
\* oracle_token_currency row of O is left in by_id or by_key, and O is listed
\* for no pair; RemoveOracle.invalidate with the same context then restores
\* O's record and rows as they were before the removal.
C23_RemoveOracle ==
    [][/\ (last'.op = "RemoveOracle.index" /\ last'.result = "Ok") =>
            LET O == last'.ev.oracle_id
                after == OracleState(services', O)
            IN /\ after.oracle = None
               /\ DOMAIN after.rows = {}
               /\ after.keys = {}
               /\ \A token \in Tokens :
                     LET entries == oracle_entries(services', token, Currency)
                     IN \A i \in DOMAIN entries : entries[i].oracle_id # O
       /\ (last'.op = "RemoveOracle.invalidate" /\ last'.clean) =>
            LET O == last'.ev.oracle_id
                restored == OracleState(services', O)
                before == OracleState(last'.before, O)
            IN /\ restored.oracle = before.oracle
               /\ restored.rows = before.rows
               /\ restored.keys = before.keys]_vars

\* ------------------------------------------------------------ trie claims
\* C24: a trie opened for mutation and dropped without commit leaves the node
\* store unchanged: insert and remove write nothing to the database, and the
\* commit of TrieMut::root is the only call that changes it.
C24_OnlyCommitWrites ==
    [][kvdb' # kvdb => last'.op = "TrieMut.root"]_vars

\* the value a trie with root node content holds for key, as an option
ValueIn(content, key) == {e[2] : e \in {x \in content : x[1] = key}}

\* every key of the trie with this root can be read from the database
Readable(db, root) ==
    \A key \in TrieKeys :
        Trie_get(db, root, key) = [result |-> "Ok", value |-> ValueIn(root.keccak, key)]

\* C25: after any sequence of mutations and commits, with removals and
\* overwrites, every root committed before can be opened and returns for
\* every key the value it had at that commit; no committed node is deleted
\* from the node store.
C25_HistoricalRootsReadable ==
    \A i \in DOMAIN commits : Readable(kvdb, commits[i].root)

\* C26: from the same root r the same sequence of inserts and removes (one
\* call at least) commits to the same root r' in every application: a commit
\* returns the root that every earlier commit from the same root after the
\* same calls returned.
C26_TrieDeterminism ==
    [][((last'.op = "TrieMut.root" \/ last'.op = "TrieMut.drop")
            /\ last'.edits # <<>>) =>
        \A i \in DOMAIN commits :
            (commits[i].base = last'.base /\ commits[i].edits = last'.edits)
                => commits[i].root = last'.root]_vars

\* ------------------------------------------------------------ bloom claims
\* C27: logs_bloom only sets bits: the bloom after the call contains every bit
\* it had before, the membership test is true for the address and for each
\* topic of every log, and the block's bloom OR-ed with the bloom of any
\* receipt of the block is the block's bloom.
C27_LogsBloomOnlySets ==
    [][last'.op = "logs_bloom" =>
        /\ block_bloom \subseteq block_bloom'
        /\ \A i \in DOMAIN last'.logs :
              /\ contains_input(block_bloom', RawAddress(last'.logs[i].address))
              /\ \A j \in DOMAIN last'.logs[i].topics :
                    contains_input(block_bloom', RawTopic(last'.logs[i].topics[j]))
        /\ \A r \in DOMAIN receipt_blooms' :
              /\ accrue_bloom(block_bloom', receipt_blooms'[r].bloom) = block_bloom'
              /\ \A i \in DOMAIN receipt_blooms'[r].logs :
                    /\ contains_input(receipt_blooms'[r].bloom,
                                      RawAddress(receipt_blooms'[r].logs[i].address))
                    /\ \A j \in DOMAIN receipt_blooms'[r].logs[i].topics :
                          contains_input(receipt_blooms'[r].bloom,
                                         RawTopic(receipt_blooms'[r].logs[i].topics[j]))]_vars

\* a second receipt with logs and topics was accrued on a block bloom that
\* had bits of the first, and it set bits the block bloom did not have
C27_Witness ==
    /\ last.op = "logs_bloom"
    /\ Len(receipt_blooms) = 2
    /\ receipt_blooms[1].bloom # {}
    /\ last.logs # <<>>
    /\ \E i \in DOMAIN last.logs : last.logs[i].topics # <<>>
    /\ ~(receipt_blooms[2].bloom \subseteq receipt_blooms[1].bloom)
    /\ ~(receipt_blooms[1].bloom \subseteq receipt_blooms[2].bloom)

\* ------------------------------------------------------- log and code store
\* the elements of a sequence
Range(seq) == {seq[i] : i \in DOMAIN seq}

\* the log indices get_logs returns for an address of a block
LogsAt(s, number, address) ==
    LET map == get_logs(s, number) IN
    IF IsSome(map) /\ IsSome(ColGet(Unwrap(map), address))
    THEN Some(Unwrap(ColGet(Unwrap(map), address)))
    ELSE None

\* a put_logs leaves the entries of the other addresses of the block and of
\* the other blocks as they were
PutLogsFrame ==
    /\ \A n \in Numbers \ {last'.number} :
          get_logs(store', n) = get_logs(store, n)
    /\ \A a \in Addresses \ {last'.address} :
          LogsAt(store', last'.number, a) = LogsAt(store, last'.number, a)

\* C28 as stated: put_logs merges into the entry of the block: the other
\* addresses of the block and the other blocks are unchanged, get_logs of the
\* block holds the logs under the address, and the log indices stored earlier
\* for the same block and address are still there.
C28_PutLogsMerges ==
    [][last'.op = "put_logs" =>
        /\ PutLogsFrame
        /\ IsSome(LogsAt(store', last'.number, last'.address))
        /\ Range(last'.logs)
              \subseteq Range(Unwrap(LogsAt(store', last'.number, last'.address)))
        /\ IsSome(LogsAt(store, last'.number, last'.address))
              => Range(Unwrap(LogsAt(store, last'.number, last'.address)))
                    \subseteq Range(Unwrap(LogsAt(store', last'.number, last'.address)))]_vars

\* C28 amended: put_logs merges into the map of the block and replaces the
\* entry of the address: the other addresses of the block and the other
\* blocks are unchanged, and get_logs of the block holds exactly logs under
\* the address.
C28_PutLogsReplaces ==
    [][last'.op = "put_logs" =>
        /\ PutLogsFrame
        /\ LogsAt(store', last'.number, last'.address) = Some(last'.logs)]_vars

\* a put_logs on a block that had logs of this address and of another one
C28_Witness ==
    /\ last.op = "put_logs"
    /\ IsSome(last.before)
    /\ IsSome(ColGet(Unwrap(last.before), last.address))
    /\ Unwrap(ColGet(Unwrap(last.before), last.address)) # last.logs
    /\ \E a \in Addresses \ {last.address} : IsSome(LogsAt(store, last.number, a))

\* the code hashes recorded for a block, as a set
HashesAt(s, number) ==
    LET cur == ColGet(s.block_code_hashes, number) IN
    IF IsSome(cur) THEN Unwrap(cur) ELSE {}

\* C29: after put_code(n, h, code) get_code_by_hash(h) returns code and
\* block_code_hashes[n] holds h and every hash recorded for n before;
\* block_code_hashes of the other blocks and code_map of the other hashes are
\* unchanged.
C29_PutCode ==
    [][last'.op = "put_code" =>
        /\ get_code_by_hash(store', CodeHash(last'.code)) = Some(last'.code)
        /\ HashesAt(store', last'.number) = HashesAt(store, last'.number) \cup {CodeHash(last'.code)}
        /\ IsSome(ColGet(store'.block_code_hashes, last'.number))
        /\ \A n \in Numbers \ {last'.number} :
              ColGet(store'.block_code_hashes, n) = ColGet(store.block_code_hashes, n)
        /\ \A c \in Codes :
              CodeHash(c) # CodeHash(last'.code)
                  => get_code_by_hash(store', CodeHash(c)) = get_code_by_hash(store, CodeHash(c))]_vars

\* a put_code on a block that had another hash recorded, with the code of
\* another block in the store
C29_Witness ==
    /\ last.op = "put_code"
    /\ IsSome(last.before)
    /\ Unwrap(last.before) # {}
    /\ CodeHash(last.code) \notin Unwrap(last.before)
    /\ \E n \in Numbers \ {last.number} : HashesAt(store, n) # {}

\* ------------------------------------------------- SetOracleData: skipped pairs
\* the rows of a repository that belong to the pair
PairRows(repo, token, currency, ticker) ==
    {row \in {repo.by_id[id] : id \in DOMAIN repo.by_id} :
        IF ticker THEN row.price.token = token /\ row.price.currency = currency
        ELSE row.token = token /\ row.currency = currency}

\* the aggregate, price-ticker and interval rows of the pair
DerivedRows(s, token, currency) ==
    <<PairRows(s.oracle_price_aggregated, token, currency, FALSE),
      PairRows(s.price_ticker, token, currency, TRUE),
      PairRows(s.oracle_price_aggregated_interval, token, currency, FALSE)>>

\* the token_prices of an event whose pair has an oracle registered
RegisteredPrices(ev) ==
    SelectSeq(ev.token_prices, LAMBDA tp : Registered(tp.token, Currency) # {})

\* the lines of a call that name the pair
ReportsOf(printed, token, currency) ==
    {i \in DOMAIN printed : printed[i].token = token /\ printed[i].currency = currency}

\* C30: SetOracleData.index reports and skips a pair that no oracle is
\* registered for: the call prints a line for the pair, the pair gets no
\* aggregate, price-ticker or interval row, the call goes on with the other
\* pairs of the event, which are indexed as the event without the skipped
\* pairs would index them, and a call that only has skipped pairs returns
\* success.
C30_UnregisteredPairSkipped ==
    [][last'.op = "SetOracleData.index" =>
        LET ev == last'.ev
            kept == RegisteredPrices(ev)
            r == SetOracleData_index(services, [ev EXCEPT !.token_prices = kept], last'.ctx)
        IN kept # ev.token_prices =>
              /\ \A i \in DOMAIN ev.token_prices :
                    Registered(ev.token_prices[i].token, Currency) = {}
                        => /\ DerivedRows(services', ev.token_prices[i].token, Currency)
                                 = DerivedRows(services, ev.token_prices[i].token, Currency)
                           /\ ReportsOf(last'.printed, ev.token_prices[i].token, Currency)
                                 # {}
              /\ last'.result = r.result
              /\ services'.oracle_price_aggregated = r.services.oracle_price_aggregated
              /\ services'.price_ticker = r.services.price_ticker
              /\ services'.oracle_price_aggregated_interval
                    = r.services.oracle_price_aggregated_interval
              /\ kept = <<>> => last'.result = "Ok"]_vars

\* ------------------------------------------------------ queue under threads
\* the calls answered with Ok whose entries are in the queue of context c:
\* those that returned, and those a thread is about to return from
CallsOf(c) ==
    {Admitted(c)[i] : i \in DOMAIN Admitted(c)}
        \cup {[tx |-> threads[t].tx, hash |-> threads[t].hash, thread |-> t,
               call |-> threads[t].call, returned |-> MaxCalls + 1] :
                 t \in {u \in Threads : /\ threads[u].pc = "return"
                                        /\ threads[u].context = c
                                        /\ threads[u].ok
                                        /\ ~threads[u].drained}}

\* the calls that queued entry e
CallsFor(c, e) == {k \in CallsOf(c) : k.tx = e.tx /\ k.hash = e.hash}

\* the queue of context c holds one entry for each call answered with Ok and
\* no other entry; an entry stands behind every entry of a call that returned
\* before its own call began, and behind the entries of its caller's earlier
\* calls
QueueInOrder(c) ==
    LET queue == tx_queues[c] IN
    /\ Len(queue) = Cardinality(CallsOf(c))
    /\ \A i \in DOMAIN queue : Cardinality(CallsFor(c, queue[i])) = 1
    /\ \A k \in CallsOf(c) : \E i \in DOMAIN queue : k \in CallsFor(c, queue[i])
    /\ \A i, j \in DOMAIN queue :
          i < j => \A ki \in CallsFor(c, queue[i]), kj \in CallsFor(c, queue[j]) :
                      /\ ki.thread = kj.thread => ki.call < kj.call
                      /\ kj.returned >= ki.call

TruncDiv(n, d) ==
    IF (n >= 0) = (d > 0) THEN Abs(n) \div Abs(d) ELSE 0 - (Abs(n) \div Abs(d))

FitsI32(n) == I32Min <= n /\ n <= I32Max

\* C32: the integer means saturate: a mean that does not fit an i32 is stored
\* as i32::MAX by forward_aggregate_number and as 0 by
\* backward_aggregate_number; a mean that fits is stored cut to an integer.
C32_MeansSaturate ==
    /\ (last.op = "forward_aggregate_number" /\ last.result = "Ok") =>
          LET mean == TruncDiv(last.last_value * last.count + last.new_value,
                               last.count + 1)
          IN last.value = IF FitsI32(mean) THEN mean ELSE I32Max
    /\ (last.op = "backward_aggregate_number" /\ last.result = "Ok") =>
          LET mean == TruncDiv(last.last_value * last.count - last.new_value,
                               last.count - 1)
          IN last.value = IF FitsI32(mean) THEN mean ELSE 0

\* a forward mean above the i32 range, stored as i32::MAX
C32_Witness ==
    /\ last.op = "forward_aggregate_number"
    /\ last.result = "Ok"
    /\ ~FitsI32(TruncDiv(last.last_value * last.count + last.new_value, last.count + 1))
    /\ last.value = I32Max

\* a backward mean outside the i32 range, stored as 0
C32_WitnessBackward ==
    /\ last.op = "backward_aggregate_number"
    /\ last.result = "Ok"
    /\ ~FitsI32(TruncDiv(last.last_value * last.count - last.new_value, last.count - 1))
    /\ last.value = 0

\* ------------------------------------------------------ latest-block sentinel
\* C33: the latest-block sentinel is one key: after put_latest_block(Some(b))
\* with b stored get_latest_block returns b, whatever index string the
\* accessors pass ("" on read, "latest_block" on write), the column holds that
\* one key, and put_latest_block(None) changes no column.
C33_LatestSentinel ==
    [][last'.op = "put_latest_block" =>
        IF IsSome(last'.block)
        THEN /\ get_latest_block(store') = last'.block
             /\ DOMAIN store'.latest_block_number = {LatestKey("")}
             /\ LatestKey("") = LatestKey("latest_block")
        ELSE store' = store]_vars

\* the sentinel was moved to a stored block while another block is stored
C33_Witness ==
    /\ last.op = "put_latest_block"
    /\ IsSome(last.block)
    /\ get_latest_block(store) = last.block
    /\ Cardinality(DOMAIN store.blocks) >= 2

\* put_latest_block(None) was called on a store that has a latest block
C33_WitnessNone ==
    /\ last.op = "put_latest_block"
    /\ last.block = None
    /\ IsSome(get_latest_block(store))

\* ---------------------------------------------------------------- column keys
\* the U256 field a column's key starts with, for the columns that have one
BlockPart(key_call, index) ==
    IF key_call.column = "BlockDeployedCodeHashes" THEN index[1] ELSE index

\* C34: the key encodings round-trip and keep the order: get_key(key(i)) = i
\* for every index of every column but the sentinel's; for the U256-keyed
\* columns the byte order of the keys is the numeric order of the block
\* numbers; a compound key is its fields, each at its fixed width, one after
\* the other.
C34_KeyEncoding ==
    last.op = "Column.key" =>
        /\ last.get_key = last.index
        /\ (last.index = last.other) = (last.raw_key = last.other_key)
        /\ last.column \in {"Blocks", "AddressLogsMap", "BlockDeployedCodeHashes"} =>
              /\ BlockPart(last, last.index) < BlockPart(last, last.other)
                    => BytesLess(last.raw_key, last.other_key)
              /\ BytesLess(last.raw_key, last.other_key)
                    => BlockPart(last, last.index) <= BlockPart(last, last.other)
        /\ last.column = "BlockDeployedCodeHashes" =>
              /\ Len(last.raw_key) = U256Bytes + H160Bytes
              /\ last.raw_key = Blocks_key(last.index[1]) \o last.index[2]
        /\ last.column = "AddressCodeMap" =>
              /\ Len(last.raw_key) = H160Bytes + H256Bytes
              /\ last.raw_key = last.index[1] \o last.index[2]

\* two block numbers that differ in a high byte only in one direction: the
\* smaller number has the larger low byte
C34_Witness ==
    /\ last.op = "Column.key"
    /\ last.column = "BlockDeployedCodeHashes"
    /\ last.index[1] < last.other[1]
    /\ last.index[1] % ByteRange > last.other[1] % ByteRange
    /\ last.index[2] # last.other[2]
    /\ BytesLess(last.raw_key, last.other_key)

\* --------------------------------------------------------------- block index
\* C35: after any sequence of put_block and disconnect_latest_block calls,
\* two blocks put under one number included, every entry block_map[h] = n has
\* a block stored at number n whose hash is h, and every stored transaction
\* hash is the hash of a transaction of a stored block.
C35_BlockIndexConsistent ==
    /\ \A h \in DOMAIN store.block_map :
          /\ store.block_map[h] \in DOMAIN store.blocks
          /\ HeaderHash(store.blocks[store.block_map[h]].header) = h
    /\ \A hash \in DOMAIN store.transactions :
          \E n \in DOMAIN store.blocks :
              \E i \in DOMAIN store.blocks[n].transactions :
                  TxHash(store.blocks[n].transactions[i]) = hash

\* a put_block that succeeded has left block_map with the hash of a block
\* that is no longer stored under its number
C35_StaleBlockMap ==
    /\ last.op = "put_block"
    /\ last.ok
    /\ \E h \in DOMAIN store.block_map :
          /\ store.block_map[h] \in DOMAIN store.blocks
          /\ HeaderHash(store.blocks[store.block_map[h]].header) # h

\* ------------------------------------------------- SetOracleData: the divisor
\* the weightage sum SetOracleData::index divides the weighted total of a pair
\* by, in the store the event's feed rows were written to
DivisorOf(s, ev, ctx, token, currency) ==
    LET feeds == map_price_feeds(ev, ctx)
        s1 == put_feeds(s, feeds, Len(feeds))
        entries == oracle_entries(s1, token, currency)
    IN sum_entries(s1, entries, ctx, Len(entries)).weightage

\* C36: SetOracleData.index never divides by zero: for a touched pair with at
\* least one registered oracle the weightage sum it divides by is greater
\* than 0, also when every registered oracle has weightage 0, no feed yet or
\* only a stale feed; the call does not panic.
C36_DivisorPositive ==
    [][last'.op = "SetOracleData.index" =>
        /\ last'.result # "Panic"
        /\ \A i \in DOMAIN last'.ev.token_prices :
              LET token == last'.ev.token_prices[i].token IN
              Registered(token, Currency) # {}
                  => DivisorOf(services, last'.ev, last'.ctx, token, Currency) > 0]_vars

\* -------------------------------------------------- interval buckets per key
\* the (token, currency, interval) triple a bucket id belongs to
TripleOf(id) == <<id[1], id[2], id[3]>>

\* the buckets and by_key entries outside the triples are the same in s and t
OtherBucketsKept(s, t, triples) ==
    LET old == s.oracle_price_aggregated_interval
        new == t.oracle_price_aggregated_interval
    IN /\ \A id \in (DOMAIN old.by_id) \cup (DOMAIN new.by_id) :
             TripleOf(id) \notin triples
                 => /\ id \in DOMAIN old.by_id
                    /\ id \in DOMAIN new.by_id
                    /\ new.by_id[id] = old.by_id[id]
       /\ \A k \in (DOMAIN old.by_key) \cup (DOMAIN new.by_key) :
             k \notin triples
                 => /\ k \in DOMAIN old.by_key
                    /\ k \in DOMAIN new.by_key
                    /\ new.by_key[k] = old.by_key[k]

\* the triples SetOracleData calls the interval functions for
TouchedTriples(ev) ==
    {<<ev.token_prices[i].token, Currency, Intervals[j]>> :
        i \in DOMAIN ev.token_prices, j \in 1..Len(Intervals)}

\* C37: index_interval_mapper and invalidate_oracle_interval called for
\* (token, currency, interval) read and modify only the bucket of that triple:
\* the buckets and by_key entries of every other token, currency or interval
\* are unchanged, also when the triple has no bucket, and
\* invalidate_oracle_interval does not fail when the triple has no bucket.
C37_BucketsIsolated ==
    [][/\ last'.op = "SetOracleData.index" /\ last'.result = "Ok"
            => OtherBucketsKept(services, services', TouchedTriples(last'.ev))
       /\ last'.op = "invalidate_oracle_interval"
            => LET triple == <<last'.aggregated.token, last'.aggregated.currency,
                               last'.interval>>
               IN /\ OtherBucketsKept(services, services', {triple})
                  /\ triple \notin DOMAIN services.oracle_price_aggregated_interval.by_key
                        => last'.result = "Ok"]_vars

\* ------------------------------------------------ lifecycle, oracle by oracle
\* the oracles a store holds a record, a history entry or a pair row of
OraclesIn(s) ==
    {k[1] : k \in DOMAIN s.oracle.by_id}
        \cup {k[1] : k \in DOMAIN s.oracle_history.by_key}
        \cup {k[3] : k \in DOMAIN s.oracle_token_currency.by_id}

LifecycleOps ==
    {"UpdateOracle.index", "UpdateOracle.invalidate",
     "RemoveOracle.index", "RemoveOracle.invalidate"}

\* C38: indexing or invalidating UpdateOracle or RemoveOracle for oracle X
\* leaves the oracle record, the history entries and the
\* oracle_token_currency rows of every other oracle Y unchanged, for any set
\* of appointed oracles and any ordering of their ids.
C38_LifecycleIsolated ==
    [][last'.op \in LifecycleOps =>
        \A Y \in OraclesIn(services) \ {last'.ev.oracle_id} :
            LET before == OracleState(services, Y)
                after == OracleState(services', Y)
            IN /\ after.oracle = before.oracle
               /\ after.history = before.history
               /\ after.history_key = before.history_key
               /\ after.rows = before.rows]_vars

\* ------------------------------------------------------ secondary indexes
\* every id a by_key entry of the store holds has a row in its by_id
Referenced(index) ==
    \A k \in DOMAIN index.by_key : index.by_key[k] \in DOMAIN index.by_id

\* C39: after any sequence of index and invalidate operations of
\* AppointOracle, UpdateOracle, RemoveOracle and SetOracleData, every id
\* stored under a by_key entry of oracle_history, oracle_token_currency,
\* oracle_price_feed, oracle_price_aggregated_interval and price_ticker has
\* a row in the matching by_id store.
C39_ReferentialIntegrity ==
    /\ Referenced(services.oracle_history)
    /\ Referenced(services.oracle_token_currency)
    /\ Referenced(services.oracle_price_feed)
    /\ Referenced(services.oracle_price_aggregated_interval)
    /\ Referenced(services.price_ticker)

\* ------------------------------------------------ concurrent store writers
\* the calls of two threads that both returned, on the same block
ReturnedPair(t, u, op) ==
    /\ t # u
    /\ threads[t].pc = "returned"
    /\ threads[u].pc = "returned"
    /\ threads[t].op = op
    /\ threads[u].op = op
    /\ threads[t].number = threads[u].number

\* C40: when two threads call put_logs for different addresses of the same
\* block, or put_code for different hashes of the same block, both entries
\* are in address_logs_map[block], respectively block_code_hashes[block],
\* after both calls returned, however the calls overlap.
C40_NoLostUpdate ==
    \A t, u \in Threads :
        /\ (ReturnedPair(t, u, "put_logs") /\ threads[t].address # threads[u].address)
              => /\ IsSome(LogsAt(store, threads[t].number, threads[t].address))
                 /\ IsSome(LogsAt(store, threads[u].number, threads[u].address))
        /\ (ReturnedPair(t, u, "put_code") /\ threads[t].hash # threads[u].hash)
              => {threads[t].hash, threads[u].hash}
                     \subseteq HashesAt(store, threads[t].number)

====
